---- MODULE Spec2Model ----
(***************************************************************************)
(* Streaming text pipeline of uigen: the reasoning-tag filter              *)
(* (StreamProcessor), the fenced-block extractor (CodeBlockParser), the    *)
(* per-stage sentinel handling (processStep), the three-stage generator    *)
(* (ModelManager.streamResponse) and the /api/generate broadcaster.        *)
(*                                                                         *)
(* Text is a sequence of characters, one string per character, so that     *)
(* indexOf, slice, trim and startsWith are computed character by character *)
(* as the JavaScript source computes them.                                 *)
(***************************************************************************)
EXTENDS Integers, Sequences, FiniteSets, TLC

VARIABLES
    input,            \* driver: the whole text of the stream under test
    rest,             \* driver: the part of input not yet delivered
    emitted,          \* driver: the fragments yielded so far, in order
    phase,            \* driver: "feed" while chunks arrive, "done" after the end
    parts,            \* driver: the pieces the fenced input was built from
    streamProcessor,  \* StreamProcessor: [isThinking, buffer]
    codeBlockParser,  \* CodeBlockParser: [buffer, inCodeBlock, codeStartIndex,
                      \*                   languageTag, codeBlockComplete]
    existingCode,     \* processStep: the prior code of the stage
    step,             \* processStep: [firstChunk, buffer, reverted]
    pipe,             \* /api/generate: the pipeline of each selected model
    wire,             \* /api/generate: the events written to the response, in order
    history,          \* /api/generate: the messages array all the models are given
    prompts,          \* the messages each model has sent to its provider, per stage
    codeFilter        \* streamCodeBlock behind a provider: [processor, emitted]

driverVars ==
    <<input, rest, emitted, phase, parts, streamProcessor, codeBlockParser,
      existingCode, step, codeFilter>>

pipeVars == <<pipe, wire, history, prompts>>

vars == <<driverVars, pipeVars>>

(***************************************************************************)
(* Bounds of the model.                                                    *)
(***************************************************************************)
MaxPieces == 3

MaxContent == 2

MaxTail == 2

(***************************************************************************)
(* JavaScript string primitives on sequences of characters.                *)
(***************************************************************************)
SetMin(S) == CHOOSE x \in S : \A y \in S : x <= y

SetMax(S) == CHOOSE x \in S : \A y \in S : x >= y

\* String.prototype.indexOf: 0-based index of the first occurrence, or -1.
IndexOf(s, pat) ==
    LET hits == {i \in 0..(Len(s) - Len(pat)) : SubSeq(s, i + 1, i + Len(pat)) = pat}
    IN  IF hits = {} THEN -1 ELSE SetMin(hits)

\* String.prototype.lastIndexOf: 0-based index of the last occurrence, or -1.
LastIndexOf(s, pat) ==
    LET hits == {i \in 0..(Len(s) - Len(pat)) : SubSeq(s, i + 1, i + Len(pat)) = pat}
    IN  IF hits = {} THEN -1 ELSE SetMax(hits)

\* String.prototype.slice(a, b) for 0 <= a, b (indices are clamped to the length).
Slice(s, a, b) ==
    LET lo == IF a > Len(s) THEN Len(s) ELSE a
        hi == IF b > Len(s) THEN Len(s) ELSE b
    IN  SubSeq(s, lo + 1, hi)

\* String.prototype.slice(a) for 0 <= a.
SliceFrom(s, a) == Slice(s, a, Len(s))

\* String.prototype.slice(-n): the last n characters (all of s when it is shorter).
SliceLast(s, n) == IF Len(s) <= n THEN s ELSE SubSeq(s, Len(s) - n + 1, Len(s))

\* Concatenation of a sequence of fragments.
RECURSIVE Flatten(_)
Flatten(fs) == IF fs = <<>> THEN <<>> ELSE Head(fs) \o Flatten(Tail(fs))

(***************************************************************************)
(* StreamProcessor (the reasoning-tag filter).                             *)
(***************************************************************************)
OpenTag == <<"<", "t", "h", "i", "n", "k", ">">>

CloseTag == <<"<", "/", "t", "h", "i", "n", "k", ">">>

\* new StreamProcessor(false): every constructor call in the repository leaves
\* extractCodeBlock false, so codeBlockParser is null and the branch of
\* process()/finalize() guarded by it is never taken.
NewStreamProcessor == [isThinking |-> FALSE, buffer |-> <<>>]

\* The while loop of process(): isThinking and content are the state of the loop, out
\* collects the yielded fragments; the result holds the fields left behind.
RECURSIVE ProcessLoop(_, _, _)
ProcessLoop(isThinking, content, out) ==
    IF Len(content) = 0
    THEN [isThinking |-> isThinking, buffer |-> <<>>, out |-> out]
    ELSE IF isThinking
    THEN LET endTagIndex == IndexOf(content, CloseTag)
         IN  IF endTagIndex # -1
             THEN ProcessLoop(FALSE, SliceFrom(content, endTagIndex + 8), out)
             ELSE IF Len(content) > 7
                  THEN [isThinking |-> TRUE, buffer |-> SliceLast(content, 7), out |-> out]
                  ELSE [isThinking |-> TRUE, buffer |-> content, out |-> out]
    ELSE LET startTagIndex == IndexOf(content, OpenTag)
         IN  IF startTagIndex # -1
             THEN ProcessLoop(TRUE, SliceFrom(content, startTagIndex + 7),
                              IF startTagIndex > 0
                              THEN Append(out, Slice(content, 0, startTagIndex))
                              ELSE out)
             ELSE IF Len(content) >= 7
                  THEN LET safeLen == Len(content) - 6
                           safePart == Slice(content, 0, safeLen)
                           riskyPart == SliceFrom(content, safeLen)
                           lastOpen == LastIndexOf(riskyPart, <<"<">>)
                       IN  IF lastOpen # -1
                           THEN [isThinking |-> FALSE,
                                 buffer |-> SliceFrom(riskyPart, lastOpen),
                                 out |-> Append(out, safePart \o Slice(riskyPart, 0, lastOpen))]
                           ELSE [isThinking |-> FALSE, buffer |-> <<>>,
                                 out |-> Append(out, content)]
                  ELSE IF IndexOf(content, <<"<">>) # -1
                       THEN [isThinking |-> FALSE, buffer |-> content, out |-> out]
                       ELSE [isThinking |-> FALSE, buffer |-> <<>>,
                             out |-> Append(out, content)]

\* A filter that, inside a span, retains all it has received.
ProcessHoarding(sp, chunk) ==
    LET content == sp.buffer \o chunk
        r == ProcessLoop(sp.isThinking, content, <<>>)
    IN  IF sp.isThinking /\ r.isThinking /\ IndexOf(content, CloseTag) = -1
        THEN [r EXCEPT !.buffer = content]
        ELSE r

\* A filter that, inside a span, yields what it drops from its buffer.
ProcessLeaky(sp, chunk) ==
    LET content == sp.buffer \o chunk
        r == ProcessLoop(sp.isThinking, content, <<>>)
    IN  IF sp.isThinking /\ r.isThinking /\ Len(content) > 7
        THEN [r EXCEPT !.out = Append(@, Slice(content, 0, Len(content) - 7))]
        ELSE r

\* StreamProcessor.process(chunk): the processor after the call and the fragments
\* it yielded.
Process(sp, chunk) ==
    IF Len(chunk) = 0
    THEN [isThinking |-> sp.isThinking, buffer |-> sp.buffer, out |-> <<>>]
    ELSE ProcessLoop(sp.isThinking, sp.buffer \o chunk, <<>>)

\* StreamProcessor.finalize(): with extractCodeBlock false the generator yields
\* nothing and leaves the fields as they are.
Finalize(sp) == [isThinking |-> sp.isThinking, buffer |-> sp.buffer, out |-> <<>>]

\* const streamProcessor = new StreamProcessor(false) of streamCodeBlock, and the
\* fragments it has yielded so far.
NewCodeFilter == [processor |-> NewStreamProcessor, emitted |-> <<>>]

(***************************************************************************)
(* CodeBlockParser (the fenced-block extractor).                           *)
(***************************************************************************)
\* The token of the backtick character U+0060 (the lexer of the tools accepts
\* no backtick inside a string, so the character is written by name).
Backtick == "BQ"

Fence == <<Backtick, Backtick, Backtick>>

\* \w of the regular expression /^(\w+)[\s\n]/.
WordChars ==
    {"a", "b", "c", "d", "e", "f", "g", "h", "i", "j", "k", "l", "m", "n", "o", "p",
     "q", "r", "s", "t", "u", "v", "w", "x", "y", "z",
     "A", "B", "C", "D", "E", "F", "G", "H", "I", "J", "K", "L", "M", "N", "O", "P",
     "Q", "R", "S", "T", "U", "V", "W", "X", "Y", "Z",
     "0", "1", "2", "3", "4", "5", "6", "7", "8", "9", "_"}

\* [\s\n] of the regular expression (the whitespace the texts of the model can hold).
RegexSpace == {" ", "\n", "\r", "\t", "\f"}

\* The characters the two skipping loops step over.
SkippedChars == {" ", "\n", "\r"}

\* Length of the longest prefix of s made of characters of set.
RECURSIVE RunLength(_, _)
RunLength(s, set) ==
    IF s # <<>> /\ Head(s) \in set THEN 1 + RunLength(Tail(s), set) ELSE 0

\* afterBackticks.match(/^(\w+)[\s\n]/): the captured language tag, or <<>> when
\* the text does not match (a match always captures at least one character).
LangMatch(afterBackticks) ==
    LET n == RunLength(afterBackticks, WordChars)
    IN  IF n >= 1 /\ n < Len(afterBackticks) /\ afterBackticks[n + 1] \in RegexSpace
        THEN Slice(afterBackticks, 0, n)
        ELSE <<>>

NewCodeBlockParser ==
    [buffer |-> <<>>, inCodeBlock |-> FALSE, codeStartIndex |-> -1,
     languageTag |-> <<>>, codeBlockComplete |-> FALSE]

\* The part of processChunk that looks for the opening marker in a parser that
\* is not yet in a block; buffer already holds the new chunk. found tells whether
\* the call goes on to the in-block part.
OpenBlock(p, buffer) ==
    LET firstBacktick == IndexOf(buffer, Fence)
    IN  IF firstBacktick = -1
        THEN [found |-> FALSE, parser |-> [p EXCEPT !.buffer = buffer]]
        ELSE LET afterBackticks == SliceFrom(buffer, firstBacktick + 3)
                 languageTag == LangMatch(afterBackticks)
                 afterTag == SliceFrom(afterBackticks, Len(languageTag))
                 codeStartIndex == firstBacktick + 3 + Len(languageTag)
                                     + RunLength(afterTag, SkippedChars)
             IN  [found |-> TRUE,
                  parser |-> [p EXCEPT !.inCodeBlock = TRUE,
                                       !.languageTag = languageTag,
                                       !.buffer = SliceFrom(buffer, codeStartIndex),
                                       !.codeStartIndex = 0]]

\* The part of processChunk that runs in a block that is not complete.
InBlock(p) ==
    LET buffer == p.buffer
        lastBacktick == LastIndexOf(buffer, Fence)
        partialBacktick == LastIndexOf(buffer, <<Backtick>>)
    IN  IF lastBacktick # -1 /\ lastBacktick > 0
        THEN [parser |-> [p EXCEPT !.codeBlockComplete = TRUE, !.buffer = <<>>],
              out |-> <<Slice(buffer, 0, lastBacktick)>>]
        ELSE IF partialBacktick # -1 /\ partialBacktick >= Len(buffer) - 2
        THEN LET safeLen == IF Len(buffer) - 2 > 0 THEN Len(buffer) - 2 ELSE 0
                 toYield == Slice(buffer, 0, safeLen)
             IN  [parser |-> [p EXCEPT !.buffer = SliceFrom(buffer, safeLen)],
                  out |-> IF Len(toYield) > 0 THEN <<toYield>> ELSE <<>>]
        ELSE IF Len(buffer) > 0
        THEN [parser |-> [p EXCEPT !.buffer = <<>>], out |-> <<buffer>>]
        ELSE [parser |-> p, out |-> <<>>]

\* A processChunk that goes on extracting after the block is complete.
ProcessChunkAgain(p, chunk) ==
    IF Len(chunk) = 0 THEN [parser |-> p, out |-> <<>>]
    ELSE LET buffer == p.buffer \o chunk
             opened == IF p.inCodeBlock
                       THEN [found |-> TRUE, parser |-> [p EXCEPT !.buffer = buffer]]
                       ELSE OpenBlock(p, buffer)
         IN  IF ~opened.found THEN [parser |-> opened.parser, out |-> <<>>]
             ELSE InBlock(opened.parser)

\* CodeBlockParser.processChunk(chunk): the parser after the call and the
\* fragments it yielded.
ProcessChunk(p, chunk) ==
    IF Len(chunk) = 0 THEN [parser |-> p, out |-> <<>>]
    ELSE LET buffer == p.buffer \o chunk
             opened == IF p.inCodeBlock
                       THEN [found |-> TRUE, parser |-> [p EXCEPT !.buffer = buffer]]
                       ELSE OpenBlock(p, buffer)
         IN  IF ~opened.found THEN [parser |-> opened.parser, out |-> <<>>]
             ELSE IF opened.parser.codeBlockComplete
             THEN [parser |-> opened.parser, out |-> <<>>]
             ELSE InBlock(opened.parser)

\* A finalize() that yields the buffer whether or not a block was opened.
ParserFinalizeAll(p) ==
    IF ~p.codeBlockComplete /\ Len(p.buffer) > 0
    THEN [parser |-> [p EXCEPT !.buffer = <<>>], out |-> <<p.buffer>>]
    ELSE [parser |-> p, out |-> <<>>]

\* A finalize() that drops what the parser has retained.
ParserFinalizeDrop(p) == [parser |-> [p EXCEPT !.buffer = <<>>], out |-> <<>>]

\* CodeBlockParser.finalize().
ParserFinalize(p) ==
    IF p.inCodeBlock /\ ~p.codeBlockComplete /\ Len(p.buffer) > 0
    THEN [parser |-> [p EXCEPT !.buffer = <<>>], out |-> <<p.buffer>>]
    ELSE [parser |-> p, out |-> <<>>]

(***************************************************************************)
(* processStep (the sentinel handling of one stage).                       *)
(***************************************************************************)
NO_CHANGE == <<"[", "N", "O", " ", "C", "H", "A", "N", "G", "E", "]">>

\* The whitespace String.prototype.trim removes (as far as texts of the model
\* can hold it).
TrimSpace == {" ", "\n", "\r", "\t", "\f"}

RECURSIVE TrimStart(_)
TrimStart(s) == IF s # <<>> /\ Head(s) \in TrimSpace THEN TrimStart(Tail(s)) ELSE s

RECURSIVE TrimEnd(_)
TrimEnd(s) ==
    IF s # <<>> /\ s[Len(s)] \in TrimSpace THEN TrimEnd(SubSeq(s, 1, Len(s) - 1)) ELSE s

\* String.prototype.trim.
Trim(s) == TrimEnd(TrimStart(s))

\* String.prototype.startsWith.
StartsWith(s, prefix) == Len(prefix) <= Len(s) /\ SubSeq(s, 1, Len(prefix)) = prefix

\* The locals of processStep before the loop.
NewStep == [firstChunk |-> TRUE, buffer |-> <<>>, reverted |-> FALSE]

\* A first-chunk branch that yields only the chunk at hand when the buffer stops
\* matching the sentinel.
FlushChunkOnly(buffer, chunk) == <<chunk>>

\* What the first-chunk branch yields when the buffer does not match the
\* sentinel: the whole buffer.
Flush(buffer, chunk) == <<buffer>>

\* The buffer as the sentinel test sees it, were it compared untrimmed.
UntrimmedBuffer(buffer) == buffer

\* const cleanBuffer = buffer.trim()
CleanBuffer(buffer) == Trim(buffer)

\* A loop that notes the sentinel and goes on reading the stream.
StepChunkNoBreak(existing, st, chunk) ==
    IF existing = <<>> THEN [step |-> st, out |-> <<chunk>>, stop |-> FALSE]
    ELSE IF st.firstChunk
    THEN LET buffer == st.buffer \o chunk
             cleanBuffer == CleanBuffer(buffer)
         IN  IF StartsWith(NO_CHANGE, cleanBuffer)
             THEN IF cleanBuffer = NO_CHANGE
                  THEN [step |-> [st EXCEPT !.buffer = buffer, !.reverted = TRUE],
                        out |-> <<>>, stop |-> FALSE]
                  ELSE [step |-> [st EXCEPT !.buffer = buffer],
                        out |-> <<>>, stop |-> FALSE]
             ELSE [step |-> [st EXCEPT !.buffer = buffer, !.firstChunk = FALSE],
                   out |-> Flush(buffer, chunk), stop |-> FALSE]
    ELSE [step |-> st, out |-> <<chunk>>, stop |-> FALSE]

\* A processStep that looks for the sentinel whether or not there is prior code.
StepChunkAlways(existing, st, chunk) ==
    IF st.firstChunk
    THEN LET buffer == st.buffer \o chunk
             cleanBuffer == CleanBuffer(buffer)
         IN  IF StartsWith(NO_CHANGE, cleanBuffer)
             THEN IF cleanBuffer = NO_CHANGE
                  THEN [step |-> [st EXCEPT !.buffer = buffer, !.reverted = TRUE],
                        out |-> <<>>, stop |-> TRUE]
                  ELSE [step |-> [st EXCEPT !.buffer = buffer],
                        out |-> <<>>, stop |-> FALSE]
             ELSE [step |-> [st EXCEPT !.buffer = buffer, !.firstChunk = FALSE],
                   out |-> Flush(buffer, chunk), stop |-> FALSE]
    ELSE [step |-> st, out |-> <<chunk>>, stop |-> FALSE]

\* A loop that passes every chunk on while it is still comparing the buffer
\* with the sentinel.
StepChunkEager(existing, st, chunk) ==
    IF existing = <<>> THEN [step |-> st, out |-> <<chunk>>, stop |-> FALSE]
    ELSE IF st.firstChunk
    THEN LET buffer == st.buffer \o chunk
             cleanBuffer == CleanBuffer(buffer)
         IN  IF StartsWith(NO_CHANGE, cleanBuffer)
             THEN IF cleanBuffer = NO_CHANGE
                  THEN [step |-> [st EXCEPT !.buffer = buffer, !.reverted = TRUE],
                        out |-> <<>>, stop |-> TRUE]
                  ELSE [step |-> [st EXCEPT !.buffer = buffer],
                        out |-> <<chunk>>, stop |-> FALSE]
             ELSE [step |-> [st EXCEPT !.buffer = buffer, !.firstChunk = FALSE],
                   out |-> Flush(buffer, chunk), stop |-> FALSE]
    ELSE [step |-> st, out |-> <<chunk>>, stop |-> FALSE]

\* One iteration of the loop of processStep on a chunk of the extracted stream
\* (existing is the prior code): the locals afterwards, the fragments yielded
\* and whether the loop was left by break. Without prior code the stream is
\* passed through (yield* stream).
StepChunk(existing, st, chunk) ==
    IF existing = <<>> THEN [step |-> st, out |-> <<chunk>>, stop |-> FALSE]
    ELSE IF st.firstChunk
    THEN LET buffer == st.buffer \o chunk
             cleanBuffer == CleanBuffer(buffer)
         IN  IF StartsWith(NO_CHANGE, cleanBuffer)
             THEN IF cleanBuffer = NO_CHANGE
                  THEN [step |-> [st EXCEPT !.buffer = buffer, !.reverted = TRUE],
                        out |-> <<>>, stop |-> TRUE]
                  ELSE [step |-> [st EXCEPT !.buffer = buffer],
                        out |-> <<>>, stop |-> FALSE]
             ELSE [step |-> [st EXCEPT !.buffer = buffer, !.firstChunk = FALSE],
                   out |-> Flush(buffer, chunk), stop |-> FALSE]
    ELSE [step |-> st, out |-> <<chunk>>, stop |-> FALSE]

\* The code of processStep after the loop: the fragments it yields.
StepEnd(existing, st) ==
    IF existing = <<>> THEN <<>>
    ELSE IF st.reverted THEN <<existing>>
    ELSE IF st.firstChunk /\ st.buffer # <<>>
    THEN IF Trim(st.buffer) = NO_CHANGE THEN <<existing>> ELSE <<st.buffer>>
    ELSE <<>>

(***************************************************************************)
(* Driver of the tag filter: a text with well-formed reasoning spans is    *)
(* delivered in chunks cut at arbitrary places, then the stream ends.      *)
(***************************************************************************)
\* The parts record of a run whose input is no fenced text.
NoParts ==
    [pre |-> <<>>, tag |-> <<>>, nl |-> <<>>, content |-> <<>>, closed |-> FALSE,
     post |-> <<>>]

TagSpan == OpenTag \o <<"b", "<">> \o CloseTag

TagPieces == { <<"a">>, <<"<">>, <<"<", "t", "h", "i">>, TagSpan, OpenTag \o CloseTag }

RECURSIVE PieceTexts(_)
PieceTexts(n) ==
    IF n = 0 THEN { <<>> }
    ELSE LET shorter == PieceTexts(n - 1)
         IN  shorter \cup { t \o p : t \in shorter, p \in TagPieces }

TagInit ==
    /\ input \in PieceTexts(MaxPieces)
    /\ rest = input
    /\ emitted = <<>>
    /\ phase = "feed"
    /\ parts = NoParts
    /\ streamProcessor = NewStreamProcessor
    /\ codeBlockParser = NewCodeBlockParser
    /\ existingCode = <<>>
    /\ step = NewStep
    /\ codeFilter = NewCodeFilter
    /\ pipe = <<>>
    /\ wire = <<>>
    /\ history = <<>>
    /\ prompts = <<>>

\* One call processor.process(chunk) on the next chunk of the stream.
TagFeed ==
    /\ phase = "feed"
    /\ \E n \in 1..Len(rest) :
         LET r == Process(streamProcessor, Slice(rest, 0, n))
         IN  /\ streamProcessor' = [isThinking |-> r.isThinking, buffer |-> r.buffer]
             /\ emitted' = emitted \o r.out
             /\ rest' = SliceFrom(rest, n)
    /\ UNCHANGED <<input, phase, parts, codeBlockParser, existingCode, step>>
    /\ UNCHANGED <<pipeVars, codeFilter>>

\* The stream has ended: processor.finalize().
TagFinalize ==
    /\ phase = "feed"
    /\ rest = <<>>
    /\ LET r == Finalize(streamProcessor)
       IN  /\ streamProcessor' = [isThinking |-> r.isThinking, buffer |-> r.buffer]
           /\ emitted' = emitted \o r.out
    /\ phase' = "done"
    /\ UNCHANGED <<input, rest, parts, codeBlockParser, existingCode, step>>
    /\ UNCHANGED <<pipeVars, codeFilter>>

TagNext == TagFeed \/ TagFinalize

SpecTag == TagInit /\ [][TagNext]_vars

\* Texts in which a reasoning span is opened and never closed: a lead, the
\* opening delimiter, and pieces that never make up a closing delimiter.
SpanTailPieces ==
    { <<"a">>, <<"<">>, <<"<", "/", "t", "h", "i", "n">>, <<"k">>, <<">">>, OpenTag }

RECURSIVE SpanTails(_)
SpanTails(n) ==
    IF n = 0 THEN { <<>> }
    ELSE LET shorter == SpanTails(n - 1)
         IN  shorter \cup { t \o p : t \in shorter, p \in SpanTailPieces }

SpanInputs ==
    { lead \o OpenTag \o tail :
        lead \in { <<>>, <<"a">>, <<"a", "<">> },
        tail \in { t \in SpanTails(MaxPieces) : IndexOf(t, CloseTag) = -1 } }

SpanInit ==
    /\ input \in SpanInputs
    /\ rest = input
    /\ emitted = <<>>
    /\ phase = "feed"
    /\ parts = NoParts
    /\ streamProcessor = NewStreamProcessor
    /\ codeBlockParser = NewCodeBlockParser
    /\ existingCode = <<>>
    /\ step = NewStep
    /\ codeFilter = NewCodeFilter
    /\ pipe = <<>>
    /\ wire = <<>>
    /\ history = <<>>
    /\ prompts = <<>>

SpecSpan == SpanInit /\ [][TagNext]_vars

(***************************************************************************)
(* Claims about the tag filter.                                            *)
(***************************************************************************)
\* The text with every reasoning span (delimiters and contents) removed.
RECURSIVE Strip(_)
Strip(s) ==
    LET i == IndexOf(s, OpenTag)
    IN  IF i = -1 THEN s
        ELSE LET after == SliceFrom(s, i + Len(OpenTag))
                 j == IndexOf(after, CloseTag)
             IN  IF j = -1 THEN Slice(s, 0, i)
                 ELSE Slice(s, 0, i) \o Strip(SliceFrom(after, j + Len(CloseTag)))

\* C1: chunking invariance of the tag filter: once every chunk has been processed
\* and finalize() has run, the concatenation of everything emitted equals the
\* input with every reasoning span removed, whatever the split points were.
C1_ChunkingInvariance ==
    phase = "done" => Flatten(emitted) = Strip(input)

(***************************************************************************)
(* Driver of the fence extractor: text, an opening marker, an optional     *)
(* language tag and newline, the content, and (unless the stream is cut    *)
(* short) a closing marker and trailing text, delivered in chunks cut at   *)
(* arbitrary places; then the stream ends.                                 *)
(***************************************************************************)
ContentChars == {"a", Backtick, "\n"}

RECURSIVE Texts(_, _)
Texts(chars, n) ==
    IF n = 0 THEN { <<>> }
    ELSE LET shorter == Texts(chars, n - 1)
         IN  shorter \cup { Append(t, c) : t \in shorter, c \in chars }

FenceParts ==
    { p \in [pre : { <<>>, <<"x">> },
             tag : { <<>>, <<"j", "s">> },
             nl : { <<>>, <<"\n">> },
             content : { c \in Texts(ContentChars, MaxContent) : IndexOf(c, Fence) = -1 },
             closed : BOOLEAN,
             post : { <<>>, <<"z">>, Fence }] :
        /\ p.tag # <<>> => p.nl # <<>>
        /\ ~p.closed => p.post = <<>> }

FenceText(p) ==
    p.pre \o Fence \o p.tag \o p.nl \o p.content
        \o (IF p.closed THEN Fence \o p.post ELSE <<>>)

FenceInit ==
    /\ parts \in FenceParts
    /\ input = FenceText(parts)
    /\ rest = input
    /\ emitted = <<>>
    /\ phase = "feed"
    /\ streamProcessor = NewStreamProcessor
    /\ codeBlockParser = NewCodeBlockParser
    /\ existingCode = <<>>
    /\ step = NewStep
    /\ codeFilter = NewCodeFilter
    /\ pipe = <<>>
    /\ wire = <<>>
    /\ history = <<>>
    /\ prompts = <<>>

\* One call codeBlockParser.processChunk(chunk) on the next chunk of the stream.
FenceFeed ==
    /\ phase = "feed"
    /\ \E n \in 1..Len(rest) :
         LET r == ProcessChunk(codeBlockParser, Slice(rest, 0, n))
         IN  /\ codeBlockParser' = r.parser
             /\ emitted' = emitted \o r.out
             /\ rest' = SliceFrom(rest, n)
    /\ UNCHANGED <<input, phase, parts, streamProcessor, existingCode, step>>
    /\ UNCHANGED <<pipeVars, codeFilter>>

\* The stream has ended: codeBlockParser.finalize().
FenceFinalize ==
    /\ phase = "feed"
    /\ rest = <<>>
    /\ LET r == ParserFinalize(codeBlockParser)
       IN  /\ codeBlockParser' = r.parser
           /\ emitted' = emitted \o r.out
    /\ phase' = "done"
    /\ UNCHANGED <<input, rest, parts, streamProcessor, existingCode, step>>
    /\ UNCHANGED <<pipeVars, codeFilter>>

FenceNext == FenceFeed \/ FenceFinalize

SpecFence == FenceInit /\ [][FenceNext]_vars

(***************************************************************************)
(* Claims about the fence extractor.                                       *)
(***************************************************************************)
\* The input is exactly marker, language tag, newline, CONTENT, marker: a tagged
\* content without a triple backtick, closing marker.
RoundTripShape ==
    /\ parts.pre = <<>>
    /\ parts.tag # <<>>
    /\ parts.closed
    /\ parts.post = <<>>

\* Number of characters of the input delivered so far.
Delivered == Len(input) - Len(rest)

\* Number of characters of the input up to and including the closing marker.
CloseEnd ==
    Len(parts.pre) + 3 + Len(parts.tag) + Len(parts.nl) + Len(parts.content) + 3

\* C2: fence round trip: for a tagged block around CONTENT and every split into
\* chunks, everything processChunk and finalize() emit, concatenated, is CONTENT.
C2_FenceRoundTrip ==
    (RoundTripShape /\ phase = "done") => Flatten(emitted) = parts.content

\* C10: fence completion: codeBlockComplete is false as long as the last
\* character of the closing marker has not been delivered, true once the call
\* that delivers it has finished, and it never becomes false again.
C10_FenceCompletion ==
    /\ [](parts.closed =>
            (codeBlockParser.codeBlockComplete <=> Delivered >= CloseEnd))
    /\ [][codeBlockParser.codeBlockComplete => codeBlockParser'.codeBlockComplete]_vars

(***************************************************************************)
(* Driver of processStep: the fence-extracted response of one stage, made  *)
(* of optional leading whitespace, a prefix of the sentinel and a tail, is *)
(* delivered in chunks cut at arbitrary places; then the stream ends. A    *)
(* break out of the loop ends the stage at once.                           *)
(***************************************************************************)
Prefixes(s) == { SubSeq(s, 1, n) : n \in 0..Len(s) }

StepInputs ==
    { lead \o prefix \o tail :
        lead \in { <<>>, <<"\n">> },
        prefix \in Prefixes(NO_CHANGE),
        tail \in Texts({"x", " "}, MaxTail) } \ { <<>> }

StepInit ==
    /\ input \in StepInputs
    /\ existingCode \in { <<>>, <<"p", "q">> }
    /\ rest = input
    /\ emitted = <<>>
    /\ phase = "feed"
    /\ parts = NoParts
    /\ streamProcessor = NewStreamProcessor
    /\ codeBlockParser = NewCodeBlockParser
    /\ step = NewStep
    /\ codeFilter = NewCodeFilter
    /\ pipe = <<>>
    /\ wire = <<>>
    /\ history = <<>>
    /\ prompts = <<>>

\* The stream delivers its next chunk to the loop of processStep; on break the
\* code after the loop runs at once.
StepFeed ==
    /\ phase = "feed"
    /\ \E n \in 1..Len(rest) :
         LET r == StepChunk(existingCode, step, Slice(rest, 0, n))
         IN  /\ step' = r.step
             /\ rest' = SliceFrom(rest, n)
             /\ IF r.stop
                THEN /\ emitted' = emitted \o r.out \o StepEnd(existingCode, r.step)
                     /\ phase' = "done"
                ELSE /\ emitted' = emitted \o r.out
                     /\ phase' = "feed"
    /\ UNCHANGED <<input, parts, streamProcessor, codeBlockParser, existingCode>>
    /\ UNCHANGED <<pipeVars, codeFilter>>

\* The stream has ended: the code after the loop runs.
StepFinish ==
    /\ phase = "feed"
    /\ rest = <<>>
    /\ emitted' = emitted \o StepEnd(existingCode, step)
    /\ phase' = "done"
    /\ UNCHANGED <<input, rest, parts, streamProcessor, codeBlockParser, existingCode,
                   step>>
    /\ UNCHANGED <<pipeVars, codeFilter>>

StepNext == StepFeed \/ StepFinish

SpecStep == StepInit /\ [][StepNext]_vars

(***************************************************************************)
(* Claims about processStep.                                               *)
(***************************************************************************)
\* The response is exactly the sentinel with optional surrounding whitespace.
IsSentinelResponse == Trim(input) = NO_CHANGE

\* C6: sentinel exact match: with prior code P and a response that is the
\* sentinel with optional surrounding whitespace, whatever the chunking, the
\* stage never emits anything but P, and at the end of the stage it has emitted
\* P exactly once, so that the accumulated result is P verbatim.
C6_SentinelExactMatch ==
    (existingCode # <<>> /\ IsSentinelResponse) =>
        /\ emitted \in { <<>>, <<existingCode>> }
        /\ phase = "done" => emitted = <<existingCode>>

C6_Witness ==
    /\ existingCode # <<>>
    /\ IsSentinelResponse
    /\ Len(input) > Len(NO_CHANGE)
    /\ phase = "done"
    /\ step.reverted
    /\ Len(step.buffer) > Len(NO_CHANGE)
    /\ emitted = <<existingCode>>

\* Length of the longest common prefix of two texts.
RECURSIVE CommonPrefix(_, _)
CommonPrefix(s, t) ==
    IF s # <<>> /\ t # <<>> /\ Head(s) = Head(t)
    THEN 1 + CommonPrefix(Tail(s), Tail(t))
    ELSE 0

\* The response begins (after leading whitespace) with a strict non-empty prefix
\* of the sentinel and then holds a character that is not the next character of
\* the sentinel.
Diverges(text) ==
    LET t == TrimStart(text)
        k == CommonPrefix(t, NO_CHANGE)
    IN  k >= 1 /\ k < Len(NO_CHANGE) /\ k < Len(t)

\* C7: sentinel divergence: with prior code and a response that begins with a
\* strict prefix of the sentinel and then diverges, at the end of the stage the
\* concatenation of everything processStep emitted equals the concatenation of
\* the fragments it received, for every chunking.
C7_SentinelDivergence ==
    (existingCode # <<>> /\ Diverges(input) /\ phase = "done") =>
        Flatten(emitted) = input

C7_Witness ==
    /\ existingCode # <<>>
    /\ Diverges(input)
    /\ phase = "done"
    /\ ~step.firstChunk
    /\ Len(emitted) >= 2
    /\ emitted[1] = step.buffer
    /\ Len(step.buffer) >= 3
    /\ Flatten(emitted) = input

(***************************************************************************)
(* streamCodeBlock and the provider stream: one stage of one model.        *)
(* A stage holds the StreamProcessor of the provider, the StreamProcessor  *)
(* and the CodeBlockParser of streamCodeBlock and the locals of            *)
(* processStep. over tells why the stage has stopped pulling: "no" (it has *)
(* not), "complete" (the block was closed), "reverted" (the sentinel       *)
(* matched) or "eof" (the provider stream ended). out collects what        *)
(* processStep yields during one pull.                                     *)
(***************************************************************************)
NewStage ==
    [provider |-> NewStreamProcessor, streamProcessor |-> NewStreamProcessor,
     codeBlockParser |-> NewCodeBlockParser, step |-> NewStep,
     over |-> "no", out |-> <<>>]

ProcessorOf(r) == [isThinking |-> r.isThinking, buffer |-> r.buffer]

\* A code chunk yielded by the parser goes through the loop of processStep;
\* streamCodeBlock then returns when it finds the block complete.
CodeFeed(existing, s, codeChunk) ==
    LET q == StepChunk(existing, s.step, codeChunk)
    IN  [s EXCEPT !.step = q.step,
                  !.out = @ \o q.out,
                  !.over = IF q.stop THEN "reverted"
                           ELSE IF s.codeBlockParser.codeBlockComplete THEN "complete"
                           ELSE "no"]

RECURSIVE FeedCodes(_, _, _)
FeedCodes(existing, s, codeChunks) ==
    IF codeChunks = <<>> \/ s.over # "no" THEN s
    ELSE FeedCodes(existing, CodeFeed(existing, s, Head(codeChunks)), Tail(codeChunks))

\* streamCodeBlock, inner loop: one clean chunk goes to the parser. processChunk
\* is a generator: while the body of the loop handles a chunk it has yielded,
\* the generator is suspended at that yield, and it sets codeBlockComplete only
\* when it is resumed after its last yield. The body therefore sees the flag as
\* it was before the call, and the fields the call leaves behind are in place
\* only once the loop over its chunks has ended.
ParserFeed(existing, s, cleanChunk) ==
    LET r == ProcessChunk(s.codeBlockParser, cleanChunk)
        t == FeedCodes(existing, s, r.out)
    IN  [t EXCEPT !.codeBlockParser = r.parser]

RECURSIVE FeedCleans(_, _, _)
FeedCleans(existing, s, cleanChunks) ==
    IF cleanChunks = <<>> \/ s.over # "no" THEN s
    ELSE FeedCleans(existing, ParserFeed(existing, s, Head(cleanChunks)),
                    Tail(cleanChunks))

\* streamCodeBlock, outer loop: one chunk of the provider generator goes to the
\* StreamProcessor of streamCodeBlock.
RawFeed(existing, s, rawChunk) ==
    LET r == Process(s.streamProcessor, rawChunk)
    IN  FeedCleans(existing, [s EXCEPT !.streamProcessor = ProcessorOf(r)], r.out)

RECURSIVE FeedRaws(_, _, _)
FeedRaws(existing, s, rawChunks) ==
    IF rawChunks = <<>> \/ s.over # "no" THEN s
    ELSE FeedRaws(existing, RawFeed(existing, s, Head(rawChunks)), Tail(rawChunks))

\* provider.streamResponse: one fragment of the API stream goes to the
\* StreamProcessor of the provider, which is never finalized.
ApiFeed(existing, s, fragment) ==
    LET r == Process(s.provider, fragment)
    IN  FeedRaws(existing, [s EXCEPT !.provider = ProcessorOf(r)], r.out)

\* The API stream has ended: streamCodeBlock leaves its loop and finalizes the
\* parser (and not its StreamProcessor).
StreamEnd(existing, s) ==
    LET f == ParserFinalize(s.codeBlockParser)
        t == FeedCodes(existing, [s EXCEPT !.codeBlockParser = f.parser], f.out)
    IN  IF t.over = "no" THEN [t EXCEPT !.over = "eof"] ELSE t

(***************************************************************************)
(* ModelManager.streamResponse and the loop of /api/generate: the pipeline *)
(* of one selected model.                                                  *)
(***************************************************************************)
Types == <<"html", "css", "js">>

\* The names of the providers config.json registers.
Providers == { <<"P">> }

\* String.prototype.split on a one-character separator.
RECURSIVE Split(_, _)
Split(s, sep) ==
    LET i == IndexOf(s, <<sep>>)
    IN  IF i = -1 THEN <<s>>
        ELSE <<Slice(s, 0, i)>> \o Split(SliceFrom(s, i + 1), sep)

\* An event written to the response. kind is "open" (opening marker and first
\* content of a block), "delta", "close" (closing marker), "done", "error" or
\* "DONE" (the terminal event of the response).
Event(model, kind, type, text, message) ==
    [model |-> model, kind |-> kind, type |-> type, text |-> text, message |-> message]

LogEntry(ev, type, text, prior) ==
    [ev |-> ev, type |-> type, text |-> text, prior |-> prior]

\* The pipeline of a model before the loop of /api/generate has run: script
\* holds the API fragments of its three stages, code its prior code per stage.
NewPipe(model, script, code) ==
    [model |-> model, script |-> script, code |-> code,
     status |-> "new", stage |-> 0, feedq |-> <<>>, run |-> NewStage,
     content |-> << <<>>, <<>>, <<>> >>, pending |-> <<>>,
     currentType |-> "null", lastContent |-> <<>>, log |-> <<>>]

\* A chaining that hands the behavior stage the markup alone.
ContextMarkup(p, k) == IF k = 1 THEN <<>> ELSE p.content[1]

\* The context createMessagesForType appends to the prompt of stage k.
Context(p, k) ==
    IF k = 1 THEN <<>>
    ELSE IF k = 2 THEN p.content[1]
    ELSE p.content[1] \o <<"\n", "\n">> \o p.content[2]

\* streamResponse reaches the loop of stage k: the prompt is built and the
\* provider stream of the stage is opened.
OpenStage(p, k) ==
    [p EXCEPT !.stage = k, !.feedq = p.script[k], !.run = NewStage,
              !.log = Append(@, LogEntry("open", Types[k], Context(p, k), p.code[k]))]

\* A head of streamResponse that takes any identifier.
ModelErrorNone(model) == ""

\* parseModelString and getProvider at the head of streamResponse: the error
\* message, or "" when the provider is found.
ModelError(model) ==
    IF IndexOf(model, <<"/">>) = -1 THEN "Invalid model format"
    ELSE IF Split(model, "/")[1] \notin Providers THEN "Provider not found"
    ELSE ""

\* A head of streamResponse that reports a bad identifier and runs the stages
\* all the same.
PipeStartGoOn(p) ==
    [pipe |-> OpenStage([p EXCEPT !.status = "run"], 1),
     events |-> IF ModelError(p.model) # ""
                THEN <<Event(p.model, "error", "", <<>>, ModelError(p.model))>>
                ELSE <<>>]

\* The first step of the pipeline of a model: the generator is entered.
PipeStart(p) ==
    IF ModelError(p.model) # ""
    THEN [pipe |-> [p EXCEPT !.status = "error"],
          events |-> <<Event(p.model, "error", "", <<>>, ModelError(p.model))>>]
    ELSE [pipe |-> OpenStage([p EXCEPT !.status = "run"], 1), events |-> <<>>]

\* A progress notification that carries only the chunk just yielded.
NoteContentChunk(total, chunk) == chunk

\* The content a progress notification carries: the running total.
NoteContent(total, chunk) == total

RECURSIVE Notes(_, _, _)
Notes(type, content, outs) ==
    IF outs = <<>> THEN <<>>
    ELSE LET total == content \o Head(outs)
         IN  <<[type |-> type, content |-> NoteContent(total, Head(outs))]>>
                 \o Notes(type, total, Tail(outs))

\* The pipeline takes the next fragment of the API stream of its stage (or its
\* end) through the provider, streamCodeBlock and processStep; every chunk
\* processStep yields is added to the content of the stage and becomes a
\* progress notification.
PipePull(p) ==
    LET existing == p.code[p.stage]
        s0 == [p.run EXCEPT !.out = <<>>]
        s1 == IF p.feedq = <<>> THEN StreamEnd(existing, s0)
              ELSE ApiFeed(existing, s0, Head(p.feedq))
        outs == s1.out \o (IF s1.over # "no" THEN StepEnd(existing, s1.step) ELSE <<>>)
    IN  [pipe |-> [p EXCEPT !.feedq = IF p.feedq = <<>> THEN <<>> ELSE Tail(p.feedq),
                            !.run = [s1 EXCEPT !.out = <<>>],
                            !.content[p.stage] = @ \o Flatten(outs),
                            !.pending = Notes(Types[p.stage], p.content[p.stage], outs)],
         events |-> <<>>]

\* A broadcaster that sends the whole running total again.
DeltaWhole(content, lastContent) == content

\* chunk.content.slice(lastContent.length)
Delta(content, lastContent) == SliceFrom(content, Len(lastContent))

\* A loop body that, on a change of stage, writes the closing marker and leaves
\* the opening of the new block to a later turn of the event loop.
PipeWriteInTwoTurns(p) ==
    LET chunk == Head(p.pending)
        q == [p EXCEPT !.pending = Tail(p.pending),
                       !.log = Append(@, LogEntry("note", chunk.type, chunk.content, <<>>))]
        newContent == Delta(chunk.content, p.lastContent)
    IN  IF chunk.type # p.currentType /\ p.currentType # "null"
        THEN [pipe |-> [p EXCEPT !.currentType = "null"],
              events |-> <<Event(p.model, "close", p.currentType, <<>>, "")>>]
        ELSE IF chunk.type # p.currentType
        THEN [pipe |-> [q EXCEPT !.currentType = chunk.type,
                                 !.lastContent = chunk.content],
              events |-> <<Event(p.model, "open", chunk.type, chunk.content, "")>>]
        ELSE IF Len(newContent) > 0
        THEN [pipe |-> [q EXCEPT !.lastContent = chunk.content],
              events |-> <<Event(p.model, "delta", chunk.type, newContent, "")>>]
        ELSE [pipe |-> q, events |-> <<>>]

\* A loop body that never closes the block of the stage left behind.
PipeWriteNoClose(p) ==
    LET chunk == Head(p.pending)
        q == [p EXCEPT !.pending = Tail(p.pending),
                       !.log = Append(@, LogEntry("note", chunk.type, chunk.content, <<>>))]
        newContent == Delta(chunk.content, p.lastContent)
    IN  IF chunk.type # p.currentType
        THEN [pipe |-> [q EXCEPT !.currentType = chunk.type,
                                 !.lastContent = chunk.content],
              events |-> <<Event(p.model, "open", chunk.type, chunk.content, "")>>]
        ELSE IF Len(newContent) > 0
        THEN [pipe |-> [q EXCEPT !.lastContent = chunk.content],
              events |-> <<Event(p.model, "delta", chunk.type, newContent, "")>>]
        ELSE [pipe |-> q, events |-> <<>>]

\* The body of the loop of /api/generate on one progress notification.
PipeWrite(p) ==
    LET chunk == Head(p.pending)
        q == [p EXCEPT !.pending = Tail(p.pending),
                       !.log = Append(@, LogEntry("note", chunk.type, chunk.content, <<>>))]
        newContent == Delta(chunk.content, p.lastContent)
    IN  IF chunk.type # p.currentType
        THEN [pipe |-> [q EXCEPT !.currentType = chunk.type,
                                 !.lastContent = chunk.content],
              events |-> (IF p.currentType # "null"
                          THEN <<Event(p.model, "close", p.currentType, <<>>, "")>>
                          ELSE <<>>)
                         \o <<Event(p.model, "open", chunk.type, chunk.content, "")>>]
        ELSE IF Len(newContent) > 0
        THEN [pipe |-> [q EXCEPT !.lastContent = chunk.content],
              events |-> <<Event(p.model, "delta", chunk.type, newContent, "")>>]
        ELSE [pipe |-> q, events |-> <<>>]

\* A handler that writes the done event without closing the last block.
PipeAdvanceNoClose(p) ==
    LET q == [p EXCEPT !.log = Append(@, LogEntry("end", Types[p.stage], p.content[p.stage],
                                 IF p.run.step.reverted THEN <<"R">> ELSE <<>>))]
    IN  IF p.stage < 3
        THEN [pipe |-> OpenStage(q, p.stage + 1), events |-> <<>>]
        ELSE [pipe |-> [q EXCEPT !.status = "done"],
              events |-> <<Event(p.model, "done", "", <<>>, "")>>]

\* The loop of a stage in streamResponse has ended: the next stage is opened,
\* or, after the last one, the generator returns and /api/generate closes the
\* last block and writes the done event.
PipeAdvance(p) ==
    LET q == [p EXCEPT !.log = Append(@, LogEntry("end", Types[p.stage], p.content[p.stage],
                                 IF p.run.step.reverted THEN <<"R">> ELSE <<>>))]
    IN  IF p.stage < 3
        THEN [pipe |-> OpenStage(q, p.stage + 1), events |-> <<>>]
        ELSE [pipe |-> [q EXCEPT !.status = "done"],
              events |-> (IF p.currentType # "null"
                          THEN <<Event(p.model, "close", p.currentType, <<>>, "")>>
                          ELSE <<>>)
                         \o <<Event(p.model, "done", "", <<>>, "")>>]

\* A generator that catches the failure of a stage, reports it and goes on to
\* the next stage.
PipeFailSkip(p) ==
    LET q == [p EXCEPT !.log = Append(@, LogEntry("fail", Types[p.stage], <<>>, <<>>))]
        ev == <<Event(p.model, "error", "", <<>>, "provider error")>>
    IN  IF p.stage < 3
        THEN [pipe |-> OpenStage(q, p.stage + 1), events |-> ev]
        ELSE [pipe |-> [q EXCEPT !.status = "error"], events |-> ev]

\* A catch that logs the error on the console and writes nothing.
PipeFailSilent(p) ==
    [pipe |-> [p EXCEPT !.status = "error",
                        !.log = Append(@, LogEntry("fail", Types[p.stage], <<>>, <<>>))],
     events |-> <<>>]

\* The provider stream raises: the catch of /api/generate writes the error event.
PipeFail(p) ==
    [pipe |-> [p EXCEPT !.status = "error",
                        !.log = Append(@, LogEntry("fail", Types[p.stage], <<>>, <<>>))],
     events |-> <<Event(p.model, "error", "", <<>>, "provider error")>>]

\* Where the pipeline stands.
CanStart(p) == p.status = "new"

CanWrite(p) == p.status = "run" /\ p.pending # <<>>

\* A generator that goes on to the next stage while notifications of the stage
\* are still on their way to the loop of /api/generate.
CanAdvanceEarly(p) == p.status = "run" /\ p.run.over # "no"

CanAdvance(p) == p.status = "run" /\ p.pending = <<>> /\ p.run.over # "no"

CanPull(p) == p.status = "run" /\ p.pending = <<>> /\ p.run.over = "no"

Terminal(p) == p.status \in {"done", "error"}

(***************************************************************************)
(* The prompts of a stage. Messages are objects and arrays hold references *)
(* to them: a heap is a sequence of messages, an address is an index of    *)
(* it, and an array is a sequence of addresses.                            *)
(***************************************************************************)
\* A turn of the conversation.
Message(role, content) == [role |-> role, content |-> content]

\* getPromptForType: the system prompt of a stage.
SystemPrompt(type) == <<"#system", type>>

\* promptSuffix of createMessagesForType.
PromptSuffix(type, context, existing) ==
    <<"#generate", type>>
        \o (IF existing # <<>>
            THEN <<"#existing", type>> \o existing \o <<"#nochange">>
            ELSE <<>>)
        \o (IF context # <<>> THEN <<"#sofar">> \o context ELSE <<>>)

\* A map over the array that keeps the message objects themselves.
ShareAll(heap, arr) == [heap |-> heap, arr |-> arr]

\* baseHistory.map(m => ({ ...m })): a new array of new objects.
CloneAll(heap, arr) ==
    [heap |-> heap \o [k \in 1..Len(arr) |-> heap[arr[k]]],
     arr |-> [k \in 1..Len(arr) |-> Len(heap) + k]]

\* createMessagesForType(type, baseHistory, context, existingCode): the heap
\* after the call and the array returned.
CreateMessagesForType(heap, type, baseHistory, context, existing) ==
    LET c == CloneAll(heap, baseHistory)
        messages == c.arr
        n == Len(messages)
        promptSuffix == PromptSuffix(type, context, existing)
    IN  IF n > 0 /\ c.heap[messages[n]].role = "user"
        THEN [heap |-> [c.heap EXCEPT ![messages[n]].content = @ \o promptSuffix],
              arr |-> messages]
        ELSE [heap |-> Append(c.heap, Message("user", <<"#first", type>> \o promptSuffix)),
              arr |-> Append(messages, Len(c.heap) + 1)]

\* The head of OpenAIProvider.streamResponse: processedMessages.
ProcessedMessages(heap, messages, systemPrompt) ==
    IF Len(messages) = 0 \/ heap[messages[1]].role # "system"
    THEN [heap |-> Append(heap, Message("system", systemPrompt)),
          arr |-> <<Len(heap) + 1>> \o messages]
    ELSE [heap |-> [heap EXCEPT ![messages[1]].content = systemPrompt],
          arr |-> messages]

\* The messages an array holds.
Deref(heap, arr) == [k \in 1..Len(arr) |-> heap[arr[k]]]

\* A stage is opened with the history array hist: the messages of the history
\* afterwards and the messages sent to the API.
StagePrompt(hist, type, context, existing) ==
    LET baseHistory == [k \in 1..Len(hist) |-> k]
        outcomes ==
            { [history |-> Deref(q.heap, baseHistory), sent |-> Deref(q.heap, q.arr)] :
                q \in { ProcessedMessages(m.heap, m.arr, SystemPrompt(type)) :
                          m \in { CreateMessagesForType(hist, type, baseHistory,
                                                        context, existing) } } }
    IN  CHOOSE outcome \in outcomes : TRUE

(***************************************************************************)
(* /api/generate: the selected models run concurrently, each through its   *)
(* own pipeline, and write to one response.                                *)
(***************************************************************************)
Pipelines == {1, 2}

\* The scripted API streams of a stage (each a sequence of fragments).
ScriptPlain == << Fence \o <<"j", "s", "\n", "a">>, <<"b">> \o Fence >>

ScriptThink ==
    << OpenTag \o <<"t">> \o CloseTag \o Fence \o <<"\n", "c", "d">> \o Fence \o <<"z">>,
       <<"e">> >>

ScriptSentinel ==
    << Fence \o <<"[", "N", "O", " ">>, <<"C", "H", "A", "N", "G", "E", "]">> \o Fence >>

\* The sentinel, and then more text of the block in a later fragment.
ScriptSentinelTail ==
    << Fence \o <<"[", "N", "O", " ">>, <<"C", "H", "A", "N", "G", "E", "]">>,
       <<"x">> \o Fence >>

ScriptSentinelWhole == << Fence \o NO_CHANGE \o Fence >>

ScriptNoFence == << <<"h", "i">> >>

ScriptOpen == << Fence \o <<"\n", "e">> >>

ScriptPartial == << Fence \o <<"\n", "g", Backtick>> >>

NoCode == << <<>>, <<>>, <<>> >>

\* A selected model: the kind of its identifier, the API streams of its three
\* stages and its prior code.
Scenarios ==
    { [kind |-> "ok", script |-> <<ScriptPlain, ScriptThink, ScriptNoFence>>,
       code |-> NoCode],
      [kind |-> "ok", script |-> <<ScriptSentinelTail, ScriptNoFence, ScriptPartial>>,
       code |-> << <<"p">>, <<>>, <<>> >>],
      [kind |-> "ok", script |-> <<ScriptPlain, ScriptSentinel, ScriptNoFence>>,
       code |-> << <<"p">>, <<"q", "r">>, <<>> >>],
      [kind |-> "ok", script |-> <<ScriptNoFence, ScriptSentinelWhole, ScriptOpen>>,
       code |-> NoCode],
      [kind |-> "ok", script |-> <<ScriptNoFence, ScriptNoFence, ScriptNoFence>>,
       code |-> NoCode],
      [kind |-> "noslash", script |-> <<ScriptPlain, ScriptPlain, ScriptPlain>>,
       code |-> NoCode],
      [kind |-> "unknown", script |-> <<ScriptPlain, ScriptPlain, ScriptPlain>>,
       code |-> NoCode] }

\* The conversation histories of the requests: a single prompt, a history that
\* begins with a system turn, and one that ends with an assistant turn.
HistoryPlain == << Message("user", <<"u">>) >>

Histories ==
    { HistoryPlain,
      << Message("system", <<"s">>), Message("user", <<"u">>) >>,
      << Message("user", <<"u">>), Message("assistant", <<"v">>) >> }

\* The requests: the selected models and the history. Every pair of models is
\* run on the single prompt; the other histories are run with both models on
\* the same scenario.
Requests ==
    { rq \in [models : [Pipelines -> Scenarios], history : Histories] :
        rq.history = HistoryPlain \/ rq.models[1] = rq.models[2] }

\* The identifier of the i-th selected model.
ModelString(i, kind) ==
    LET name == <<"m", IF i = 1 THEN "1" ELSE "2">>
    IN  IF kind = "noslash" THEN name
        ELSE IF kind = "unknown" THEN <<"X", "/">> \o name
        ELSE <<"P", "/">> \o name

Init ==
    /\ \E rq \in Requests :
         /\ pipe = [i \in Pipelines |->
                      NewPipe(ModelString(i, rq.models[i].kind), rq.models[i].script,
                              rq.models[i].code)]
         /\ history = rq.history
    /\ wire = <<>>
    /\ prompts = [i \in Pipelines |-> <<>>]
    /\ input = <<>>
    /\ rest = <<>>
    /\ emitted = <<>>
    /\ phase = "idle"
    /\ parts = NoParts
    /\ streamProcessor = NewStreamProcessor
    /\ codeBlockParser = NewCodeBlockParser
    /\ existingCode = <<>>
    /\ step = NewStep
    /\ codeFilter = NewCodeFilter

\* A handler whose currentType and lastContent are declared outside the callback
\* of models.map, so that all the models share them.
CommitShared(pipes, i, q) ==
    [j \in DOMAIN pipes |->
        IF j = i THEN q
        ELSE [pipes[j] EXCEPT !.currentType = q.currentType,
                              !.lastContent = q.lastContent]]

\* currentType and lastContent are locals of the callback of models.map, and the
\* generator of each model holds its own parsers: a step of one pipeline
\* replaces the state of that pipeline alone.
Commit(pipes, i, q) == [pipes EXCEPT ![i] = q]

\* What a step of a pipeline from p to q does with the history array hist: when
\* the step has opened a stage, its prompt is built and sent.
Opened(hist, p, q) ==
    IF q.stage # p.stage
    THEN LET opened == q.log[Len(q.log)]
             sp == StagePrompt(hist, opened.type, opened.text, opened.prior)
         IN  [history |-> sp.history, sent |-> <<sp.sent>>]
    ELSE [history |-> hist, sent |-> <<>>]

\* A step r of the pipeline of model i takes effect: its state is replaced and
\* its events are written to the response.
Take(i, r) ==
    /\ pipe' = Commit(pipe, i, r.pipe)
    /\ wire' = wire \o r.events
    /\ \E o \in { Opened(history, pipe[i], r.pipe) } :
         /\ history' = o.history
         /\ prompts' = [prompts EXCEPT ![i] = @ \o o.sent]
    /\ UNCHANGED driverVars

\* A handler that awaits the stream of a model before it starts the next one.
StartInTurn(i) ==
    /\ CanStart(pipe[i])
    /\ \A j \in Pipelines : j < i => Terminal(pipe[j])
    /\ \E r \in { PipeStart(pipe[i]) } : Take(i, r)

Start(i) == CanStart(pipe[i]) /\ \E r \in { PipeStart(pipe[i]) } : Take(i, r)

Pull(i) == CanPull(pipe[i]) /\ \E r \in { PipePull(pipe[i]) } : Take(i, r)

Write(i) == CanWrite(pipe[i]) /\ \E r \in { PipeWrite(pipe[i]) } : Take(i, r)

Advance(i) == CanAdvance(pipe[i]) /\ \E r \in { PipeAdvance(pipe[i]) } : Take(i, r)

\* The provider of model i raises while the pipeline waits for the stream.
Fail(i) == CanPull(pipe[i]) /\ \E r \in { PipeFail(pipe[i]) } : Take(i, r)

ResponseEnded == \E k \in 1..Len(wire) : wire[k].kind = "DONE"

\* A handler that waits for the first of the streams only.
AnySettled(pipes) == \E i \in DOMAIN pipes : Terminal(pipes[i])

\* await Promise.all(streams) has returned.
AllSettled(pipes) == \A i \in DOMAIN pipes : Terminal(pipes[i])

\* The terminal event is written and the response ended.
Complete ==
    /\ AllSettled(pipe)
    /\ ~ResponseEnded
    /\ wire' = Append(wire, Event(<<>>, "DONE", "", <<>>, ""))
    /\ UNCHANGED <<pipe, history, prompts, driverVars>>

Next ==
    \/ \E i \in Pipelines : Start(i)
    \/ \E i \in Pipelines : Fail(i)
    \/ \E i \in Pipelines : Write(i)
    \/ \E i \in Pipelines : Advance(i)
    \/ \E i \in Pipelines : Pull(i)
    \/ Complete

Spec == Init /\ [][Next]_vars

\* Every provider stream is finite and the event loop runs every continuation
\* that is ready.
FairSpec == Spec /\ WF_vars(Next)

\* The event loop runs every continuation that is ready, and the provider of
\* the second model delivers its next fragment, or raises, in the end; the
\* provider of the first model may keep its next fragment for ever.
StallSpec ==
    /\ Spec
    /\ \A i \in Pipelines : WF_vars(Start(i) \/ Write(i) \/ Advance(i))
    /\ WF_vars(Fail(2) \/ Pull(2))

(***************************************************************************)
(* Claims about the pipelines and the response.                            *)
(***************************************************************************)
IsPrefix(s, t) == StartsWith(t, s)

\* The events of the response that carry a model, in order.
WireOf(model) == SelectSeq(wire, LAMBDA e : e.model = model)

RECURSIVE TextOf(_)
TextOf(events) == IF events = <<>> THEN <<>> ELSE Head(events).text \o TextOf(Tail(events))

\* The content sent for a stage of a model: the events of its block without the
\* opening and closing markers, concatenated.
StageText(model, type) ==
    TextOf(SelectSeq(wire, LAMBDA e : /\ e.model = model
                                      /\ e.type = type
                                      /\ e.kind \in {"open", "delta"}))

\* C3: delta completeness: for every model and stage the content deltas written
\* for the stage, concatenated, are a prefix of the accumulated content of the
\* stage while a notification of it is still on its way, and equal it from then
\* on: no character is sent twice and none is skipped.
C3_DeltaCompleteness ==
    \A i \in DOMAIN pipe : \A k \in 1..3 :
        LET p == pipe[i]
            sent == StageText(p.model, Types[k])
        IN  IF p.pending = <<>> \/ k # p.stage
            THEN sent = p.content[k]
            ELSE IsPrefix(sent, p.content[k])

C3_Witness ==
    \E i \in DOMAIN pipe :
        /\ pipe[i].status = "done"
        /\ Len(pipe[i].content[1]) >= 2
        /\ \E k \in 1..Len(wire) :
             /\ wire[k].model = pipe[i].model
             /\ wire[k].kind = "delta"
             /\ wire[k].type = "html"
        /\ StageText(pipe[i].model, "html") = pipe[i].content[1]

\* The pipeline of a model as it was before its first step.
Fresh(p) == NewPipe(p.model, p.script, p.code)

\* The events a model writes when it runs alone and its provider never raises.
RECURSIVE RunAlone(_)
RunAlone(p) ==
    IF Terminal(p) THEN <<>>
    ELSE LET r == IF CanStart(p) THEN PipeStart(p)
                  ELSE IF p.pending # <<>> THEN PipeWrite(p)
                  ELSE IF p.run.over # "no" THEN PipeAdvance(p)
                  ELSE PipePull(p)
         IN  r.events \o RunAlone(r.pipe)

ErrorCount(model) == Len(SelectSeq(wire, LAMBDA e : e.model = model /\ e.kind = "error"))

\* C4: fault isolation: a model has exactly one error event when its pipeline
\* has failed and none otherwise, and the events of every model that has not
\* failed are those it writes when it runs alone, up to the done event, whether
\* or not another model has failed meanwhile.
C4_FaultIsolation ==
    \A i \in DOMAIN pipe :
        LET p == pipe[i]
            alone == RunAlone(Fresh(p))
        IN  /\ ErrorCount(p.model) = IF p.status = "error" THEN 1 ELSE 0
            /\ p.status # "error" => IsPrefix(WireOf(p.model), alone)
            /\ p.status = "done" => WireOf(p.model) = alone

C4_Witness ==
    \E i, j \in DOMAIN pipe :
        /\ i # j
        /\ pipe[i].status = "error"
        /\ pipe[i].stage >= 2
        /\ pipe[j].status = "done"
        /\ Len(WireOf(pipe[j].model)) >= 5
        /\ \E a, b \in 1..Len(wire) :
             /\ a < b
             /\ wire[a].kind = "error"
             /\ wire[a].model = pipe[i].model
             /\ wire[b].kind = "delta"
             /\ wire[b].model = pipe[j].model

\* The terminal event is the last event of the response, occurs once, and every
\* selected model has written its done or its error event before it.
DoneOnceLast ==
    \A k \in 1..Len(wire) :
        wire[k].kind = "DONE" =>
            /\ k = Len(wire)
            /\ \A i \in DOMAIN pipe :
                 \E a \in 1..(k - 1) :
                     /\ wire[a].model = pipe[i].model
                     /\ wire[a].kind \in {"done", "error"}

\* C5: terminal sentinel: with finite provider streams, whatever mix of models
\* succeed or fail, the response eventually carries the terminal event; it
\* carries it once, after the done or error event of every selected model, and
\* no event follows it.
C5_TerminalSentinel == <>ResponseEnded /\ []DoneOnceLast

C5_Witness ==
    /\ ResponseEnded
    /\ \E i, j \in DOMAIN pipe :
         /\ pipe[i].status = "error"
         /\ pipe[i].stage >= 1
         /\ pipe[j].status = "done"
         /\ Len(WireOf(pipe[j].model)) >= 5

StageIndex(type) == CHOOSE k \in 1..3 : Types[k] = type

\* C8: strict stage order: in the pipeline of every model the stream of a stage
\* after the first is opened right after the end of the stage before it, every
\* progress notification of a stage lies between the opening and the end of that
\* stage, so that the notifications come in the order markup, styling, behavior,
\* and the done event of the model is the last event that carries it.
C8_StageOrder ==
    \A i \in DOMAIN pipe :
        LET log == pipe[i].log
            w == WireOf(pipe[i].model)
        IN  /\ \A a, b \in 1..Len(log) :
                 a < b => StageIndex(log[a].type) <= StageIndex(log[b].type)
            /\ \A b \in 1..Len(log) :
                 (log[b].ev = "open" /\ log[b].type # "html") =>
                     /\ b > 1
                     /\ log[b - 1].ev = "end"
                     /\ StageIndex(log[b - 1].type) = StageIndex(log[b].type) - 1
            /\ \A b \in 1..Len(log) :
                 log[b].ev = "note" =>
                     /\ \E a \in 1..(b - 1) : log[a].ev = "open" /\ log[a].type = log[b].type
                     /\ \A a \in 1..(b - 1) : ~(log[a].ev = "end" /\ log[a].type = log[b].type)
            /\ \A d \in 1..Len(w) :
                 w[d].kind = "done" =>
                     /\ d = Len(w)
                     /\ log # <<>>
                     /\ log[Len(log)].ev = "end"
                     /\ log[Len(log)].type = "js"

C8_Witness ==
    \E i \in DOMAIN pipe :
        LET log == pipe[i].log
        IN  /\ pipe[i].status = "done"
            /\ \E a, b \in 1..Len(log) :
                 /\ a < b
                 /\ log[a].ev = "note" /\ log[a].type = "html"
                 /\ log[b].ev = "note" /\ log[b].type = "css"
            /\ WireOf(pipe[i].model)[Len(WireOf(pipe[i].model))].kind = "done"

\* The progress notifications of a pipeline, in order: those the loop of
\* /api/generate has received, then those still on their way.
AllNotes(p) ==
    LET got == SelectSeq(p.log, LAMBDA e : e.ev = "note")
    IN  [a \in 1..Len(got) |-> [type |-> got[a].type, content |-> got[a].text]]
            \o p.pending

\* C9: running totals: within one stage the content of each progress
\* notification has the content of the one before it as a prefix and is no
\* shorter, and the content of a notification is the whole text the stage had
\* accumulated when it was made: the last one of a stage carries the content
\* of the stage.
C9_RunningTotals ==
    \A i \in DOMAIN pipe :
        LET all == AllNotes(pipe[i])
        IN  \A a \in 1..Len(all) :
                IF a < Len(all) /\ all[a + 1].type = all[a].type
                THEN /\ IsPrefix(all[a].content, all[a + 1].content)
                     /\ Len(all[a].content) <= Len(all[a + 1].content)
                ELSE all[a].content = pipe[i].content[StageIndex(all[a].type)]

C9_Witness ==
    \E i \in DOMAIN pipe :
        LET all == AllNotes(pipe[i])
        IN  /\ pipe[i].status = "done"
            /\ \E a \in 1..(Len(all) - 1) :
                 /\ all[a].type = all[a + 1].type
                 /\ Len(all[a].content) >= 1
                 /\ Len(all[a + 1].content) > Len(all[a].content)

\* C11: a failed stage is terminal: when the provider stream of a stage has
\* raised, the failure is the last thing the pipeline of the model does: no
\* stream of a later stage is opened and no progress notification of a later
\* stage is produced or awaited, the model has exactly one error event, and that
\* event is the last event that carries the model.
C11_FailedStageTerminal ==
    \A i \in DOMAIN pipe :
        LET p == pipe[i]
            log == p.log
            w == WireOf(p.model)
        IN  \A a \in 1..Len(log) :
                log[a].ev = "fail" =>
                    /\ a = Len(log)
                    /\ p.status = "error"
                    /\ p.pending = <<>>
                    /\ \A b \in 1..Len(log) :
                         StageIndex(log[b].type) <= StageIndex(log[a].type)
                    /\ \A b \in 1..Len(w) :
                         w[b].type # "" => StageIndex(w[b].type) <= StageIndex(log[a].type)
                    /\ ErrorCount(p.model) = 1
                    /\ w[Len(w)].kind = "error"

C11_Witness ==
    /\ ResponseEnded
    /\ \E i \in DOMAIN pipe :
         LET log == pipe[i].log
         IN  /\ Len(log) >= 3
             /\ log[Len(log)].ev = "fail"
             /\ log[Len(log)].type = "html"
             /\ \E b \in 1..Len(log) : log[b].ev = "note"
             /\ ErrorCount(pipe[i].model) = 1

\* The identifier holds no separator.
NoSeparator(model) == \A k \in 1..Len(model) : model[k] # "/"

\* The identifier holds a separator and what stands before the first one is not
\* the name of a registered provider.
UnregisteredProvider(model) ==
    \E k \in 1..Len(model) :
        /\ model[k] = "/"
        /\ \A j \in 1..(k - 1) : model[j] # "/"
        /\ SubSeq(model, 1, k - 1) \notin Providers

\* C12: input errors fail early: a model whose identifier has no separator or
\* names an unregistered provider never has a provider stream opened and never
\* has a progress event; all it ever writes is one error event, at its first
\* step. The events of every other model are those it writes when it runs alone.
C12_InputErrorsFailEarly ==
    \A i \in DOMAIN pipe :
        LET p == pipe[i]
            alone == RunAlone(Fresh(p))
        IN  IF NoSeparator(p.model) \/ UnregisteredProvider(p.model)
            THEN /\ p.log = <<>>
                 /\ p.stage = 0
                 /\ p.pending = <<>>
                 /\ p.status \in {"new", "error"}
                 /\ WireOf(p.model) =
                        IF p.status = "new" THEN <<>>
                        ELSE <<Event(p.model, "error", "", <<>>, WireOf(p.model)[1].message)>>
            ELSE /\ p.status # "new" => p.log # <<>>
                 /\ p.status # "error" => IsPrefix(WireOf(p.model), alone)
                 /\ p.status = "done" => WireOf(p.model) = alone

C12_Witness ==
    /\ ResponseEnded
    /\ \E i, j \in DOMAIN pipe :
         /\ UnregisteredProvider(pipe[i].model)
         /\ pipe[i].status = "error"
         /\ pipe[j].status = "done"
         /\ Len(WireOf(pipe[j].model)) >= 5
         /\ \E a, b \in 1..Len(wire) :
              /\ a < b
              /\ wire[a].model = pipe[j].model
              /\ wire[b].model = pipe[i].model

\* C13: end of stream outside a reasoning span: the call of finalize() that ends
\* the stream while the filter is outside a span emits, verbatim, every
\* character the filter had withheld as a possible split opening delimiter.
C13_NormalEndFlush ==
    [][(phase = "feed" /\ phase' = "done" /\ ~streamProcessor.isThinking)
           => Flatten(emitted') = Flatten(emitted) \o streamProcessor.buffer]_vars

\* What stands before the first opening delimiter of the input.
BeforeSpan == Slice(input, 0, IndexOf(input, OpenTag))

\* C14: unterminated reasoning span: when the input opens a span that is never
\* closed, whatever the chunking, what has been emitted is at every moment a
\* prefix of what stands before the opening delimiter, and after finalize() it
\* is exactly that: no character that follows the opening delimiter is emitted.
C14_UnterminatedSpan ==
    (IndexOf(input, OpenTag) # -1 /\ IndexOf(input, CloseTag) = -1) =>
        /\ IsPrefix(Flatten(emitted), BeforeSpan)
        /\ streamProcessor.isThinking => Flatten(emitted) = BeforeSpan
        /\ phase = "done" => streamProcessor.isThinking

C14_Witness ==
    /\ IndexOf(input, OpenTag) # -1
    /\ IndexOf(input, CloseTag) = -1
    /\ phase = "done"
    /\ streamProcessor.isThinking
    /\ BeforeSpan # <<>>
    /\ Len(input) >= Len(BeforeSpan) + Len(OpenTag) + 8
    /\ Len(streamProcessor.buffer) = 7
    /\ Flatten(emitted) = BeforeSpan

\* Number of characters of the input up to and including the opening marker.
MarkerEnd == IndexOf(input, Fence) + 3

\* Number of characters of the input up to the end of the header of the block:
\* the opening marker, the language tag and the whitespace after it.
HeaderEnd ==
    LET afterBackticks == SliceFrom(input, MarkerEnd)
        tag == LangMatch(afterBackticks)
    IN  MarkerEnd + Len(tag)
            + RunLength(SliceFrom(afterBackticks, Len(tag)), SkippedChars)

WireOn(w, model) == SelectSeq(w, LAMBDA e : e.model = model)

\* The pairs of the state of a pipeline and the events it has written so far,
\* at every moment of its run alone without a failure, from state p with
\* events evs.
RECURSIVE AloneTrace(_, _)
AloneTrace(p, evs) ==
    IF Terminal(p) THEN { <<p, evs>> }
    ELSE LET r == IF CanStart(p) THEN PipeStart(p)
                  ELSE IF p.pending # <<>> THEN PipeWrite(p)
                  ELSE IF p.run.over # "no" THEN PipeAdvance(p)
                  ELSE PipePull(p)
         IN  { <<p, evs>> } \cup AloneTrace(r.pipe, evs \o r.events)

\* A step changes the state or the events of one pipeline at most.
OnePipelinePerStep ==
    \A i, j \in DOMAIN pipe :
        (i # j /\ (pipe'[i] # pipe[i]
                     \/ WireOn(wire', pipe[i].model) # WireOn(wire, pipe[i].model))) =>
            /\ pipe'[j] = pipe[j]
            /\ WireOn(wire', pipe[j].model) = WireOn(wire, pipe[j].model)

\* C17: pipeline isolation: whatever the interleaving with the other model, the
\* state of the pipeline of a model (parser state, accumulated content, stage,
\* last transmitted content) and the events that carry the model are at every
\* moment a state and the events of the run of that model alone on the same
\* fragments, and a step of one pipeline leaves the other as it was.
C17_PipelineIsolation ==
    /\ [](\A i \in DOMAIN pipe :
            LET p == pipe[i]
                alone == AloneTrace(Fresh(p), <<>>)
            IN  \/ <<p, WireOf(p.model)>> \in alone
                \/ \E t \in alone :
                     /\ CanPull(t[1])
                     /\ p = PipeFail(t[1]).pipe
                     /\ WireOf(p.model) = t[2] \o PipeFail(t[1]).events)
    /\ [][OnePipelinePerStep]_vars

C17_Witness ==
    /\ \A i \in DOMAIN pipe :
         /\ pipe[i].status = "done"
         /\ Len(WireOf(pipe[i].model)) >= 5
         /\ pipe[i].content[1] # <<>>
    /\ \E a, b, c, d \in 1..Len(wire) :
         /\ a < b /\ b < c /\ c < d
         /\ wire[a].model = pipe[1].model /\ wire[a].kind = "open"
         /\ wire[b].model = pipe[2].model /\ wire[b].kind = "open"
         /\ wire[c].model = pipe[1].model /\ wire[c].kind = "delta"
         /\ wire[d].model = pipe[2].model /\ wire[d].kind = "delta"

\* C18: no blocking between pipelines: also when the provider stream of the
\* first model never delivers its next fragment, the second model, whose
\* provider streams are finite, ends: unless its own provider raises, all its
\* progress events and its done event are written to the response.
C18_NoBlocking ==
    <>(\/ pipe[2].status = "error"
       \/ /\ pipe[2].status = "done"
          /\ WireOf(pipe[2].model) = RunAlone(Fresh(pipe[2])))

C18_Witness ==
    /\ pipe[1].status = "run"
    /\ pipe[1].stage = 1
    /\ pipe[1].feedq = pipe[1].script[1]
    /\ CanPull(pipe[1])
    /\ pipe[2].status = "done"
    /\ Len(WireOf(pipe[2].model)) >= 5
    /\ WireOf(pipe[2].model)[Len(WireOf(pipe[2].model))].kind = "done"

\* The events of a sequence that are of a kind.
OfKind(events, kind) == SelectSeq(events, LAMBDA e : e.kind = kind)

\* C19: pipeline exhaustion: a model has a done event only when its three
\* stages have ended without error, and then exactly one, the last event that
\* carries the model; when a block was opened for the model, the event before
\* the done event is the closing marker of the block opened last, and every
\* block opened has been closed; when none was, the done event stands alone.
C19_PipelineExhaustion ==
    \A i \in DOMAIN pipe :
        LET p == pipe[i]
            w == WireOf(p.model)
            opens == OfKind(w, "open")
        IN  IF p.status # "done"
            THEN OfKind(w, "done") = <<>>
            ELSE /\ Len(OfKind(w, "done")) = 1
                 /\ w[Len(w)].kind = "done"
                 /\ p.stage = 3
                 /\ p.log[Len(p.log)] = LogEntry("end", "js", p.content[3], p.log[Len(p.log)].prior)
                 /\ Len(OfKind(w, "close")) = Len(opens)
                 /\ IF opens = <<>>
                    THEN w = <<Event(p.model, "done", "", <<>>, "")>>
                    ELSE /\ Len(w) >= 3
                         /\ w[Len(w) - 1].kind = "close"
                         /\ w[Len(w) - 1].type = opens[Len(opens)].type

C19_Witness ==
    \E i \in DOMAIN pipe :
        LET w == WireOf(pipe[i].model)
        IN  /\ pipe[i].status = "done"
            /\ Len(OfKind(w, "open")) >= 2
            /\ w[Len(w)].kind = "done"
            /\ w[Len(w) - 1].kind = "close"
            /\ w[Len(w) - 1].type = "js"

\* The messages a stage sends when they are built from the history h: the
\* history with the instruction of the stage added to its last user turn (or in
\* a new user turn), under the system prompt of the stage.
PromptFrom(h, type, context, existing) ==
    LET suffix == PromptSuffix(type, context, existing)
        turns == IF h # <<>> /\ h[Len(h)].role = "user"
                 THEN [h EXCEPT ![Len(h)].content = @ \o suffix]
                 ELSE Append(h, Message("user", <<"#first", type>> \o suffix))
    IN  IF turns[1].role = "system"
        THEN [turns EXCEPT ![1].content = SystemPrompt(type)]
        ELSE <<Message("system", SystemPrompt(type))>> \o turns

\* C20: the history is immutable: no step changes the role or the content of a
\* turn of the history all the models are given, or the number of its turns,
\* and the messages every stage of every model has sent are built from that
\* history and the context of the stage, not from the messages of an earlier
\* stage.
C20_HistoryImmutable ==
    /\ [][history' = history]_vars
    /\ [](\A i \in DOMAIN pipe :
            LET opens == SelectSeq(pipe[i].log, LAMBDA e : e.ev = "open")
            IN  /\ Len(prompts[i]) = Len(opens)
                /\ \A k \in 1..Len(opens) :
                     prompts[i][k] =
                         PromptFrom(history, opens[k].type, opens[k].text, opens[k].prior))

C20_Witness ==
    \E i, j \in DOMAIN pipe :
        /\ i # j
        /\ Len(history) = 2
        /\ history[1] = Message("system", <<"s">>)
        /\ history[2] = Message("user", <<"u">>)
        /\ Len(prompts[i]) = 3
        /\ Len(prompts[j]) >= 2
        /\ prompts[i][3][1] = Message("system", SystemPrompt("js"))
        /\ \E k \in 1..Len(prompts[i][3][2].content) :
             prompts[i][3][2].content[k] = "#sofar"
        /\ \E k \in 1..Len(prompts[i][2][2].content) :
             prompts[i][2][2].content[k] = "#existing"

\* The step hands a progress notification of model i to the loop of
\* /api/generate.
Receives(i) ==
    /\ Len(pipe'[i].log) = Len(pipe[i].log) + 1
    /\ pipe'[i].log[Len(pipe'[i].log)].ev = "note"

\* C21: stage transition markers: when the loop of /api/generate receives a
\* progress notification of a model whose stage is not the last stage seen for
\* the model, it writes the closing marker of the block of the stage last seen
\* if and only if a stage was seen, and then one event: the opening marker of
\* the type of the new stage and the whole content of the notification.
C21_StageTransitionMarkers ==
    [][\A i \in DOMAIN pipe :
         LET note == pipe'[i].log[Len(pipe'[i].log)]
             seen == pipe[i].currentType
             model == pipe[i].model
         IN  (Receives(i) /\ note.type # seen) =>
                 /\ WireOn(wire', model) =
                        WireOf(model)
                            \o (IF seen # "null"
                                THEN <<Event(model, "close", seen, <<>>, "")>>
                                ELSE <<>>)
                            \o <<Event(model, "open", note.type, note.text, "")>>
                 /\ pipe'[i].currentType = note.type]_vars

C21_Witness ==
    \E i \in DOMAIN pipe :
        LET w == WireOf(pipe[i].model)
        IN  /\ Len(w) >= 4
            /\ w[1].kind = "open" /\ w[1].type = "html"
            /\ \E k \in 2..(Len(w) - 1) :
                 /\ w[k].kind = "close" /\ w[k].type = "html"
                 /\ w[k + 1].kind = "open" /\ w[k + 1].type = "css"
                 /\ Len(w[k + 1].text) >= 2

\* Index in the input of the first triple backtick strictly after index k, or
\* the length of the input when there is none.
FirstClose(k) ==
    LET hits == { j \in (k + 1)..(Len(input) - 3) : Slice(input, j, j + 3) = Fence }
    IN  IF hits = {} THEN Len(input) ELSE SetMin(hits)

\* C22: the first closing marker ends the block: what the parser has emitted,
\* concatenated, runs from the start of the block (the end of the header the
\* parser consumed) and stops before the first triple backtick after the start
\* of the block: no character at or after that marker is emitted, also when
\* further triple backticks arrive in the same chunk or in later chunks.
C22_FirstCloseEndsBlock ==
    codeBlockParser.inCodeBlock =>
        \E k \in MarkerEnd..HeaderEnd :
            IsPrefix(Flatten(emitted), Slice(input, k, FirstClose(k)))

\* Index in the input of the closing marker of the block.
CloseStart == CloseEnd - 3

\* C23: split closing marker: when the closing marker of a block (after a
\* content that does not end in a backtick) arrives in two or three calls of
\* processChunk, the call that delivers its last backtick leaves the parser
\* complete, and what has been emitted is the content before the marker: none
\* of the backticks of the marker is emitted.
C23_SplitClosingMarker ==
    [][(/\ parts.closed
        /\ parts.content # <<>>
        /\ parts.content[Len(parts.content)] # Backtick
        /\ Delivered > CloseStart
        /\ Delivered < CloseEnd
        /\ Len(input) - Len(rest') >= CloseEnd) =>
           /\ codeBlockParser'.codeBlockComplete
           /\ \E k \in MarkerEnd..HeaderEnd :
                Flatten(emitted') = Slice(input, k, CloseStart)]_vars

\* Number of characters of the input up to and including the language tag.
TagEnd == Len(parts.pre) + 3 + Len(parts.tag)

\* C24: the language tag is consumed: whatever the chunk boundaries are, what
\* the parser has emitted, concatenated, is text of the input that starts at or
\* after the end of the language tag: neither the text before the opening
\* marker nor the language tag is emitted as content.
C24_LanguageTagConsumed ==
    \E k \in TagEnd..Len(input) : IsPrefix(Flatten(emitted), SliceFrom(input, k))

\* The stage of a pipeline has prior code, its stream has not ended, and the
\* trimmed accumulation of the fragments processStep has received is a strict
\* non-empty prefix of the sentinel.
Holding(p) ==
    /\ p.status = "run"
    /\ p.code[p.stage] # <<>>
    /\ p.run.over = "no"
    /\ LET clean == Trim(p.run.step.buffer)
       IN  clean # <<>> /\ clean # NO_CHANGE /\ IsPrefix(clean, NO_CHANGE)

\* C25: sentinel hold-back: for a stage with prior code, as long as the trimmed
\* accumulation of the received fragments is a strict non-empty prefix of the
\* sentinel, processStep has emitted nothing: the stage has no content, no
\* progress notification (on its way or received) and no event on the wire.
C25_SentinelHoldBack ==
    \A i \in DOMAIN pipe :
        Holding(pipe[i]) =>
            LET p == pipe[i]
                type == Types[p.stage]
            IN  /\ p.content[p.stage] = <<>>
                /\ p.pending = <<>>
                /\ \A k \in 1..Len(p.log) :
                     ~(p.log[k].ev = "note" /\ p.log[k].type = type)
                /\ \A k \in 1..Len(wire) :
                     ~(wire[k].model = p.model /\ wire[k].type = type)

C25_Witness ==
    \E i \in DOMAIN pipe :
        /\ Holding(pipe[i])
        /\ pipe[i].stage = 2
        /\ pipe[i].run.step.buffer = <<"[", "N", "O", " ">>
        /\ pipe[i].run.step.firstChunk
        /\ pipe[i].feedq # <<>>
        /\ \E k \in 1..Len(wire) :
             wire[k].model = pipe[i].model /\ wire[k].kind = "delta" /\ wire[k].type = "html"

\* C26: no prior code, no sentinel handling: for a stage whose prior code is
\* empty, every chunk of the extracted stream is emitted as it is, when it
\* arrives, and nothing else is emitted; the stage is never reverted and ends
\* only when the stream has ended, also when the response is the sentinel.
C26_NoPriorCodePassThrough ==
    [][existingCode = <<>> =>
          /\ emitted' = IF rest' # rest
                        THEN Append(emitted, Slice(rest, 0, Len(rest) - Len(rest')))
                        ELSE emitted
          /\ ~step'.reverted
          /\ phase' = "done" => rest = <<>>]_vars

C26_Witness ==
    /\ existingCode = <<>>
    /\ input = NO_CHANGE
    /\ phase = "done"
    /\ ~step.reverted
    /\ Len(emitted) = 3
    /\ Flatten(emitted) = NO_CHANGE

\* The final content of stage k of a pipeline, as the loop of /api/generate has
\* seen it: the prior code when the stage was reverted, otherwise the running
\* total of its last progress notification (nothing when it had none).
FinalContent(p, k) ==
    LET notes == SelectSeq(p.log, LAMBDA e : e.ev = "note" /\ e.type = Types[k])
        reverted == \E n \in 1..Len(p.log) :
                       /\ p.log[n].ev = "end"
                       /\ p.log[n].type = Types[k]
                       /\ p.log[n].prior # <<>>
    IN  IF reverted THEN p.code[k]
        ELSE IF notes = <<>> THEN <<>>
        ELSE notes[Len(notes)].text

\* The messages of the stages of every pipeline are those built from the
\* history with the contexts chain gives for the styling and the behavior stage.
ChainedBy(chain(_, _)) ==
    \A i \in DOMAIN pipe :
        \A k \in 1..Len(prompts[i]) :
            prompts[i][k] =
                PromptFrom(history, Types[k],
                           IF k = 1 THEN <<>>
                           ELSE IF k = 2 THEN FinalContent(pipe[i], 1)
                           ELSE chain(FinalContent(pipe[i], 1), FinalContent(pipe[i], 2)),
                           pipe[i].code[k])

Concatenated(markup, styling) == markup \o styling

BlankLineJoined(markup, styling) == markup \o <<"\n", "\n">> \o styling

\* C27 as stated: context chaining: the prompt of the styling stage embeds
\* exactly the final content of the markup stage, and the prompt of the
\* behavior stage embeds the concatenation of the final contents of the markup
\* and the styling stage; the final content of a reverted stage is its prior
\* code.
C27_ContextChaining == ChainedBy(Concatenated)

\* C27 amended: the prompt of the behavior stage embeds the final content of
\* the markup stage, a blank line (two newlines) and the final content of the
\* styling stage; the prompt of the styling stage embeds exactly the final
\* content of the markup stage; the final content of a reverted stage is its
\* prior code, not the sentinel.
C27_ContextChainingJoined == ChainedBy(BlankLineJoined)

C27_Witness ==
    \E i \in DOMAIN pipe :
        /\ Len(prompts[i]) = 3
        /\ pipe[i].code[2] = <<"q", "r">>
        /\ \E n \in 1..Len(pipe[i].log) :
             /\ pipe[i].log[n].ev = "end"
             /\ pipe[i].log[n].type = "css"
             /\ pipe[i].log[n].prior # <<>>
        /\ FinalContent(pipe[i], 1) = <<"a", "b">>
        /\ LET sent == prompts[i][3][Len(prompts[i][3])].content
           IN  SliceLast(sent, 7) = <<"#sofar", "a", "b", "\n", "\n", "q", "r">>

\* Stage k of a pipeline is Reverted: its loop was left on the sentinel.
Reverted(p, k) ==
    \/ p.status = "run" /\ p.stage = k /\ p.run.step.reverted
    \/ \E n \in 1..Len(p.log) :
         p.log[n].ev = "end" /\ p.log[n].type = Types[k] /\ p.log[n].prior # <<>>

\* The progress notifications of a type a pipeline has yielded, received by the
\* loop of /api/generate or on their way to it.
NotesOf(p, type) ==
    [n \in 1..Len(SelectSeq(p.log, LAMBDA e : e.ev = "note" /\ e.type = type)) |->
        SelectSeq(p.log, LAMBDA e : e.ev = "note" /\ e.type = type)[n].text]
    \o [n \in 1..Len(SelectSeq(p.pending, LAMBDA c : c.type = type)) |->
        SelectSeq(p.pending, LAMBDA c : c.type = type)[n].content]

\* C28: reverted stops consumption: once the accumulation equals the sentinel
\* and the stage is Reverted, the stage takes no further fragment from its
\* provider; its content is the prior code, it has one progress notification,
\* which carries the prior code, and the events of the stage on the wire carry
\* the prior code once and nothing else.
C28_RevertedStopsConsumption ==
    /\ [](\A i \in DOMAIN pipe : \A k \in 1..3 :
            Reverted(pipe[i], k) =>
                LET p == pipe[i]
                    sent == SelectSeq(wire, LAMBDA e : e.model = p.model
                                                        /\ e.type = Types[k]
                                                        /\ e.kind # "close")
                IN  /\ p.content[k] = p.code[k]
                    /\ NotesOf(p, Types[k]) = <<p.code[k]>>
                    /\ sent \in { <<>>, <<Event(p.model, "open", Types[k], p.code[k], "")>> })
    /\ [][\A i \in DOMAIN pipe :
            (pipe[i].status = "run" /\ pipe[i].run.step.reverted
                /\ pipe'[i].stage = pipe[i].stage) =>
               /\ pipe'[i].feedq = pipe[i].feedq
               /\ pipe'[i].run = pipe[i].run]_vars

C28_Witness ==
    \E i \in DOMAIN pipe :
        /\ pipe[i].status = "done"
        /\ pipe[i].script[1] = ScriptSentinelTail
        /\ Reverted(pipe[i], 1)
        /\ pipe[i].content[1] = <<"p">>
        /\ \E k \in 1..Len(wire) : wire[k] = Event(pipe[i].model, "open", "html", <<"p">>, "")

\* The chunk the step delivers to process().
Chunk == Slice(rest, 0, Len(rest) - Len(rest'))

\* Length of the longest non-empty proper prefix of the opening delimiter the
\* text ends with (0 when it ends with none).
PartialTail(text) ==
    SetMax({0} \cup { n \in 1..(Len(OpenTag) - 1) :
                        n <= Len(text) /\ SliceLast(text, n) = Slice(OpenTag, 0, n) })

\* C29: the tag filter withholds only delimiter prefixes: when a call of
\* process() starts in Normal state and the pending text (the buffer and the
\* chunk) holds no opening delimiter, the call retains exactly the tail of the
\* pending text that is a non-empty prefix of the opening delimiter (nothing
\* when the text ends with none) and emits all the text before it.
C29_WithholdsOnlyPrefixes ==
    [][(/\ phase = "feed"
        /\ rest' # rest
        /\ ~streamProcessor.isThinking
        /\ IndexOf(streamProcessor.buffer \o Chunk, OpenTag) = -1) =>
           LET pending == streamProcessor.buffer \o Chunk
               keep == PartialTail(pending)
           IN  /\ streamProcessor'.buffer = SliceLast(pending, keep)
               /\ Flatten(emitted') =
                      Flatten(emitted) \o Slice(pending, 0, Len(pending) - keep)]_vars

\* C30: the lookback of the tag filter is bounded: after every call of
\* process() the buffer holds at most 6 characters when the filter is in Normal
\* state and at most 7 when it is inside a span, for every sequence of chunks.
C30_LookbackBounded ==
    Len(streamProcessor.buffer) <= (IF streamProcessor.isThinking THEN 7 ELSE 6)

C30_Witness ==
    /\ streamProcessor.isThinking
    /\ Len(streamProcessor.buffer) = 7
    /\ Len(input) - Len(rest) >= Len(OpenTag) + 8
    /\ \E k \in 1..Len(emitted) : Len(emitted[k]) >= 7

\* C31: the lookback of the fence extractor is bounded: after every call of
\* processChunk made once the opening marker has been consumed, the buffer
\* holds at most 2 characters, in a block and after the block is complete.
C31_ParserLookbackBounded ==
    codeBlockParser.inCodeBlock => Len(codeBlockParser.buffer) <= 2

\* C32: the stage ends at block completion: once the fragment that holds the
\* closing marker has been processed and the block is complete, the stage
\* pulls no further fragment from the stream of its provider.
C32_StageEndsAtCompletion ==
    [][\A i \in DOMAIN pipe :
         (/\ pipe[i].status = "run"
          /\ pipe[i].run.codeBlockParser.codeBlockComplete
          /\ pipe'[i].stage = pipe[i].stage) =>
            pipe'[i].feedq = pipe[i].feedq]_vars

(***************************************************************************)
(* Driver of parseModelString: the function is called on an identifier     *)
(* made of letters and separators.                                         *)
(***************************************************************************)
MaxName == 4

ModelStrings == Texts({"P", "m", "/"}, MaxName)

\* parseModelString(modelString): the provider name and the model name, or the
\* error thrown.
ParseModelString(modelString) ==
    IF IndexOf(modelString, <<"/">>) # -1
    THEN LET pieces == Split(modelString, "/")
         IN  [error |-> FALSE, providerName |-> pieces[1], modelName |-> pieces[2]]
    ELSE [error |-> TRUE, providerName |-> <<>>, modelName |-> <<>>]

ParseInit ==
    /\ input \in ModelStrings
    /\ rest = input
    /\ emitted = <<>>
    /\ phase = "feed"
    /\ parts = NoParts
    /\ streamProcessor = NewStreamProcessor
    /\ codeBlockParser = NewCodeBlockParser
    /\ existingCode = <<>>
    /\ step = NewStep
    /\ codeFilter = NewCodeFilter
    /\ pipe = <<>>
    /\ wire = <<>>
    /\ history = <<>>
    /\ prompts = <<>>

\* One call parseModelString(input): emitted holds the two names returned.
ParseCall ==
    /\ phase = "feed"
    /\ LET r == ParseModelString(input)
       IN  IF r.error
           THEN phase' = "error" /\ emitted' = <<>>
           ELSE phase' = "done" /\ emitted' = <<r.providerName, r.modelName>>
    /\ rest' = <<>>
    /\ UNCHANGED <<input, parts, streamProcessor, codeBlockParser, existingCode, step>>
    /\ UNCHANGED <<pipeVars, codeFilter>>

SpecParse == ParseInit /\ [][ParseCall]_vars

\* C33: model identifier parsing keeps the whole model name: for an identifier
\* that holds at least one separator, parseModelString returns the text before
\* the first separator as the provider name and all the text after it, further
\* separators included, as the model name.
C33_WholeModelName ==
    (phase # "feed" /\ IndexOf(input, <<"/">>) # -1) =>
        /\ phase = "done"
        /\ emitted = << Slice(input, 0, IndexOf(input, <<"/">>)),
                        SliceFrom(input, IndexOf(input, <<"/">>) + 1) >>

\* Opening markers minus closing markers among the events.
Balance(events) == Len(OfKind(events, "open")) - Len(OfKind(events, "close"))

\* C34: markers are balanced: in every prefix of the events of a model on the
\* wire, the number of opening markers minus the number of closing markers is
\* 0 or 1, and it is 0 in the prefix that ends with the terminal event of the
\* model (done or error), also when the pipeline fails within a stage.
C34_MarkersBalanced ==
    \A i \in DOMAIN pipe :
        LET w == WireOf(pipe[i].model)
        IN  \A n \in 0..Len(w) :
                /\ Balance(SubSeq(w, 1, n)) \in {0, 1}
                /\ (n >= 1 /\ w[n].kind \in {"done", "error"}) =>
                       Balance(SubSeq(w, 1, n)) = 0

\* The terminal events (done or error) among the events.
Terminals(events) == SelectSeq(events, LAMBDA e : e.kind \in {"done", "error"})

\* C35: exactly one terminal event per model: the events of a model on the
\* wire hold at most one terminal event (done or error), nothing of the model
\* follows it, and when the response has ended every selected model has
\* exactly one.
C35_OneTerminalEvent ==
    \A i \in DOMAIN pipe :
        LET w == WireOf(pipe[i].model)
            n == Len(Terminals(w))
        IN  /\ n <= 1
            /\ n = 1 => w[Len(w)].kind \in {"done", "error"}
            /\ ResponseEnded => n = 1

C35_Witness ==
    /\ ResponseEnded
    /\ \E i, j \in DOMAIN pipe :
         LET wi == WireOf(pipe[i].model)
             wj == WireOf(pipe[j].model)
         IN  /\ Len(wi) >= 3
             /\ wi[Len(wi)].kind = "error"
             /\ wi[Len(wi) - 1].kind = "delta"
             /\ Len(wj) >= 6
             /\ wj[Len(wj)].kind = "done"

\* C36: marker pairs are atomic on the wire: under every interleaving of the
\* models, every closing marker on the wire is followed at once by an event of
\* the same model, the opening event of its next stage or its done event; no
\* event of another model stands between them.
C36_MarkerPairsAtomic ==
    \A k \in 1..Len(wire) :
        wire[k].kind = "close" =>
            /\ k < Len(wire)
            /\ wire[k + 1].model = wire[k].model
            /\ wire[k + 1].kind \in {"open", "done"}

C36_Witness ==
    \E k \in 2..(Len(wire) - 4) :
        /\ wire[k].kind = "close"
        /\ wire[k + 1].kind = "open"
        /\ wire[k - 1].model # wire[k].model
        /\ wire[k + 2].model # wire[k].model
        /\ wire[k + 3].kind = "close"
        /\ wire[k + 3].model = wire[k].model
        /\ wire[k + 4].kind = "done"

\* C37: empty fenced block: for an input made of an opening marker, an optional
\* language tag with its newline, and at once the closing marker, whatever the
\* chunking, the parser has emitted nothing when the stream has ended, and it
\* is complete.
C37_EmptyBlock ==
    (/\ parts.pre = <<>>
     /\ parts.content = <<>>
     /\ parts.closed
     /\ parts.post = <<>>
     /\ parts.nl # <<>> => parts.tag # <<>>
     /\ phase = "done") =>
        /\ emitted = <<>>
        /\ codeBlockParser.codeBlockComplete

\* The response of stage k of a pipeline holds, once its reasoning spans are
\* removed, no triple backtick.
NoFence(p, k) == IndexOf(Strip(Flatten(p.script[k])), Fence) = -1

\* C38: no fence, no content: a stage whose filtered response holds no triple
\* backtick has no content, no progress notification (yielded or received) and
\* no event on the wire; when it ends its result is the empty text and, unless
\* it is the last one, the next stage of the model is opened.
C38_NoFenceNoContent ==
    \A i \in DOMAIN pipe : \A k \in 1..3 :
        LET p == pipe[i]
        IN  (p.status # "new" /\ NoFence(p, k)) =>
                /\ p.content[k] = <<>>
                /\ NotesOf(p, Types[k]) = <<>>
                /\ \A n \in 1..Len(wire) :
                     ~(wire[n].model = p.model /\ wire[n].type = Types[k])
                /\ \A n \in 1..Len(p.log) :
                     (p.log[n].ev = "end" /\ p.log[n].type = Types[k]) =>
                         /\ p.log[n].text = <<>>
                         /\ k < 3 => /\ n < Len(p.log)
                                     /\ p.log[n + 1].ev = "open"
                                     /\ p.log[n + 1].type = Types[k + 1]

C38_Witness ==
    \E i \in DOMAIN pipe :
        /\ pipe[i].status = "done"
        /\ pipe[i].script[1] = ScriptNoFence
        /\ NoFence(pipe[i], 1)
        /\ pipe[i].content[1] = <<>>
        /\ pipe[i].content[2] = NO_CHANGE
        /\ WireOf(pipe[i].model)[1] = Event(pipe[i].model, "open", "css", NO_CHANGE, "")

(***************************************************************************)
(* Driver of the two filters in a row: the chunks of a response go to the  *)
(* StreamProcessor of the provider, and every fragment it yields goes, as  *)
(* a chunk, to the StreamProcessor of streamCodeBlock. Neither of them is  *)
(* finalized when the stream ends.                                         *)
(***************************************************************************)
DoubleInit == TagInit

\* streamCodeBlock receives the fragments the provider has yielded for one
\* chunk, one after the other.
RECURSIVE Relay(_, _)
Relay(cf, rawChunks) ==
    IF rawChunks = <<>> THEN cf
    ELSE LET r == Process(cf.processor, Head(rawChunks))
         IN  Relay([processor |-> ProcessorOf(r), emitted |-> cf.emitted \o r.out],
                   Tail(rawChunks))

\* The API delivers the next chunk of the response to the provider.
DoubleFeed ==
    /\ phase = "feed"
    /\ \E n \in 1..Len(rest) :
         LET r == Process(streamProcessor, Slice(rest, 0, n))
         IN  /\ streamProcessor' = ProcessorOf(r)
             /\ emitted' = emitted \o r.out
             /\ codeFilter' = Relay(codeFilter, r.out)
             /\ rest' = SliceFrom(rest, n)
    /\ UNCHANGED <<input, phase, parts, codeBlockParser, existingCode, step>>
    /\ UNCHANGED pipeVars

\* The API stream has ended: both loops end, no processor is finalized.
DoubleEnd ==
    /\ phase = "feed"
    /\ rest = <<>>
    /\ phase' = "done"
    /\ UNCHANGED <<input, rest, emitted, parts, streamProcessor, codeBlockParser,
                   existingCode, step, codeFilter>>
    /\ UNCHANGED pipeVars

DoubleNext == DoubleFeed \/ DoubleEnd

SpecDouble == DoubleInit /\ [][DoubleNext]_vars

\* C39: double filtering is idempotent: for every input with well-formed
\* reasoning spans and every chunking, when the stream has ended the text the
\* StreamProcessor of streamCodeBlock has yielded behind the StreamProcessor of
\* the provider is the text the StreamProcessor of the provider has yielded
\* alone.
C39_DoubleFiltering ==
    phase = "done" => Flatten(codeFilter.emitted) = Flatten(emitted)

(***************************************************************************)
(* Driver of the client's read loop: the records /api/generate has written *)
(* reach handleSubmit in read chunks cut at arbitrary places. A character  *)
(* of the stream is a token; the six characters of the prefix of a record  *)
(* are the tokens "data:" and " ", and the JSON text of an event is an     *)
(* opening brace, the model, the content (or the done flag) and a closing  *)
(* brace. wire holds the events the server wrote, emitted the calls of     *)
(* handleStreamChunk as pairs of a model and a content.                    *)
(***************************************************************************)
MaxEvents == 2

ClientModels == {"m1", "m2"}

ClientChars == {"a", "b"}

\* JSON.stringify of the object of an event.
Stringify(ev) ==
    <<"{", ev.model>> \o (IF ev.kind = "done" THEN <<"done">> ELSE ev.text) \o <<"}">>

\* The record res.write sends for an event: data: payload and an empty line.
Record(ev) == <<"data:", " ">> \o Stringify(ev) \o <<"\n", "\n">>

\* The record written after Promise.all: event: done, data: [DONE].
LastRecord == <<"event:", " ", "done", "\n", "data:", " ", "[DONE]", "\n", "\n">>

RECURSIVE Records(_)
Records(events) ==
    IF events = <<>> THEN <<>> ELSE Record(Head(events)) \o Records(Tail(events))

\* The events a server may have written: content events and done events.
ClientEvents ==
    { Event(m, "delta", "", <<c>>, "") : m \in ClientModels, c \in ClientChars }
        \cup { Event("m1", "done", "", <<>>, "") }

RECURSIVE EventSeqs(_)
EventSeqs(n) ==
    IF n = 0 THEN { <<>> }
    ELSE LET shorter == EventSeqs(n - 1)
         IN  shorter \cup { Append(s, e) : s \in shorter, e \in ClientEvents }

\* String.prototype.split on a separator of several characters.
RECURSIVE SplitOn(_, _)
SplitOn(s, sep) ==
    LET i == IndexOf(s, sep)
    IN  IF i = -1 THEN <<s>>
        ELSE <<Slice(s, 0, i)>> \o SplitOn(SliceFrom(s, i + Len(sep)), sep)

\* The whitespace JSON.parse accepts around a value.
JsonSpace == {" ", "\n", "\r", "\t"}

RECURSIVE JsonTrimStart(_)
JsonTrimStart(s) ==
    IF s # <<>> /\ Head(s) \in JsonSpace THEN JsonTrimStart(Tail(s)) ELSE s

RECURSIVE JsonTrimEnd(_)
JsonTrimEnd(s) ==
    IF s # <<>> /\ s[Len(s)] \in JsonSpace
    THEN JsonTrimEnd(SubSeq(s, 1, Len(s) - 1))
    ELSE s

\* JSON.parse(jsonStr): the object of the event, or ok = FALSE when it throws.
JsonParse(jsonStr) ==
    LET t == JsonTrimEnd(JsonTrimStart(jsonStr))
        inner == SubSeq(t, 3, Len(t) - 1)
    IN  IF /\ Len(t) >= 4
           /\ t[1] = "{"
           /\ t[Len(t)] = "}"
           /\ t[2] \in ClientModels
           /\ \/ inner = <<"done">>
              \/ \A k \in 1..Len(inner) : inner[k] \in ClientChars
        THEN [ok |-> TRUE, model |-> t[2], done |-> inner = <<"done">>,
              content |-> IF inner = <<"done">> THEN <<>> ELSE inner]
        ELSE [ok |-> FALSE, model |-> "", done |-> FALSE, content |-> <<>>]

\* The loop over the lines of one read chunk: the calls of handleStreamChunk.
RECURSIVE HandleLines(_)
HandleLines(lines) ==
    IF lines = <<>> THEN <<>>
    ELSE LET line == Head(lines)
             jsonStr == SliceFrom(line, 2)
             data == JsonParse(jsonStr)
         IN  IF ~StartsWith(line, <<"data:", " ">>) THEN HandleLines(Tail(lines))
             ELSE IF jsonStr = <<"[DONE]">> THEN <<>>
             ELSE IF data.ok /\ ~data.done
             THEN << <<data.model, data.content>> >> \o HandleLines(Tail(lines))
             ELSE HandleLines(Tail(lines))

\* The body of the read loop on one chunk: chunk.split('\n\n') and the lines.
ReadChunk(chunk) == HandleLines(SplitOn(chunk, <<"\n", "\n">>))

ClientInit ==
    /\ wire \in EventSeqs(MaxEvents)
    /\ input = Records(wire) \o LastRecord
    /\ rest = input
    /\ emitted = <<>>
    /\ phase = "feed"
    /\ parts = NoParts
    /\ streamProcessor = NewStreamProcessor
    /\ codeBlockParser = NewCodeBlockParser
    /\ existingCode = <<>>
    /\ step = NewStep
    /\ codeFilter = NewCodeFilter
    /\ pipe = <<>>
    /\ history = <<>>
    /\ prompts = <<>>

\* reader.read() returns the next chunk of the response.
ClientRead ==
    /\ phase = "feed"
    /\ \E n \in 1..Len(rest) :
         /\ emitted' = emitted \o ReadChunk(Slice(rest, 0, n))
         /\ rest' = SliceFrom(rest, n)
    /\ UNCHANGED <<input, phase, parts, streamProcessor, codeBlockParser, existingCode,
                   step, codeFilter>>
    /\ UNCHANGED pipeVars

\* reader.read() returns done.
ClientEnd ==
    /\ phase = "feed"
    /\ rest = <<>>
    /\ phase' = "done"
    /\ UNCHANGED <<input, rest, emitted, parts, streamProcessor, codeBlockParser,
                   existingCode, step, codeFilter>>
    /\ UNCHANGED pipeVars

ClientNext == ClientRead \/ ClientEnd

SpecClient == ClientInit /\ [][ClientNext]_vars

\* The raw text of a model: the contents handleStreamChunk was given for it.
RECURSIVE RawOf(_, _)
RawOf(calls, model) ==
    IF calls = <<>> THEN <<>>
    ELSE (IF Head(calls)[1] = model THEN Head(calls)[2] ELSE <<>>)
             \o RawOf(Tail(calls), model)

\* C40: client reassembly is independent of transport chunking: for every way
\* the transport cuts the event stream into read chunks, a cut inside a record
\* included, when the stream has ended the raw text the client holds for each
\* model is the concatenation, in order, of the contents of the events the
\* server wrote for that model.
C40_ClientReassembly ==
    phase = "done" =>
        \A m \in ClientModels : RawOf(emitted, m) = TextOf(WireOn(wire, m))

====
